---- MODULE Spec2Model ----
\* Verification model of agent-sdk-go:
\*   observe.AsyncSink / observe.MultiSink   (src/observe/sink.go)
\*   agent.normalizeRetryPolicy              (src/unnamed/part_006)
EXTENDS Integers, Sequences, FiniteSets, TLC

\* ---------------------------------------------------------------------------
\* Bounds of the model
\* ---------------------------------------------------------------------------
NumEmitters == 2      \* goroutines that call AsyncSink.Emit
NumClosers == 2       \* goroutines that call AsyncSink.Close, once each
MaxEmits == 2         \* Emit calls over the life of one sink
MaxBuffer == 1        \* largest buffer argument given to NewAsyncSink

\* Program constants
DefaultBuffer == 256  \* sink.go:76

Emitters == 1..NumEmitters
Closers == 1..NumClosers
BufferArgs == (-1)..MaxBuffer

\* The timestamp the caller of the k-th Emit put in its event: 0 is the unset
\* (zero) time, 1 a timestamp the caller had already set.  Every second
\* event arrives without a timestamp.
CallerTs(k) == k % 2

VARIABLES
    \* --- AsyncSink -----------------------------------------------------
    buffer,        \* the buffer argument NewAsyncSink was called with
    capacity,      \* cap(s.queue)
    queue,         \* the events buffered in s.queue, oldest first
    queueCloses,   \* number of close(s.queue) executed
    doneCloses,    \* number of close(s.done) executed
    wg,            \* s.wg counter
    once,          \* s.once: "idle", "running" (f executing) or "done"
    loopPc,        \* consumer goroutine: "recv", "downstream" or "exited"
    cur,           \* the event the consumer handed to the downstream sink
    received,      \* events the downstream sink's Emit was called with
    epc,           \* per emitter: "idle" or "select" (at line 98)
    eev,           \* per emitter: the (normalized) event of the current call
    ectx,          \* per emitter: ctx.Done() of the call in progress is closed
    eres,          \* per emitter: outcome of the last finished call
    elate,         \* per emitter: the call began after a Close had returned
    cpc,           \* per closer: position inside Close, "returned" after it
    emitCalls,     \* Emit calls made so far (also the id of the last event)
    enqueued,      \* history: the events Emit put into the queue, in order
    panicked       \* the process died of a run-time panic

asyncVars == <<buffer, capacity, queue, queueCloses, doneCloses, wg, once,
               loopPc, cur, received, epc, eev, ectx, eres, elate,
               cpc, emitCalls, enqueued, panicked>>

VARIABLES
    \* --- MultiSink -----------------------------------------------------
    margs,         \* NewMultiSink arguments: TRUE a sink, FALSE a nil sink
    mkind,         \* what NewMultiSink returned: "noop", "single", "multi"
    msinks,        \* m.sinks: the argument positions kept, in order
    mpc,           \* Emit position: "idle" or "range"
    mi,            \* index of the range loop over m.sinks
    mseen,         \* the sinks that were passed the current event, in order
    mres,          \* result of the last Emit: -1 none, 0 nil, p error of sink p
    mcalls         \* Emit calls made so far

multiVars == <<margs, mkind, msinks, mpc, mi, mseen, mres, mcalls>>

VARIABLES
    \* --- normalizeRetryPolicy ------------------------------------------
    rin,           \* the policy passed in
    rout,          \* the policy returned
    rpc            \* "in" before the call, "out" after it

retryVars == <<rin, rout, rpc>>

VARIABLES
    \* --- backoffForAttempt, rateLimitBackoffForAttempt ------------------
    bpol,          \* the normalized policy of the agent loop
    gdelays,       \* backoffForAttempt results, for retry numbers -1, 0, 1, ..
    rdelays        \* rateLimitBackoffForAttempt results, same retry numbers

backoffVars == <<bpol, gdelays, rdelays>>

VARIABLES
    \* --- IsRateLimitError -----------------------------------------------
    lerr,          \* the error of a provider call: nil or a message
    lres,          \* what IsRateLimitError returned for it
    lpc            \* "in" before the call, "out" after it

limitVars == <<lerr, lres, lpc>>

VARIABLES
    \* --- skill and flow registries --------------------------------------
    skills,        \* skill/registry.go: name -> *Skill
    flows,         \* flow/flow.go: name -> *Definition
    call,          \* the last registry call that returned: op, arg, res
    apc,           \* position of the goroutine in skill.All
    anames,        \* its local variable names
    ldpc,          \* position of each loader in loadSkillFile
    ldskill,       \* the skill each loader parsed
    ldres          \* what loadSkillFile returned to each loader last

registryVars == <<skills, flows, call, apc, anames, ldpc, ldskill, ldres>>

VARIABLES
    \* --- coordinator: one run, its attempts, its task, the workers ---------
    run,           \* the Run record: status and attempts_used
    attempts,      \* the Attempt Ledger rows of the run, by attempt_no
    task,          \* the queue task of the run: state, holder, deliveries
    wpc,           \* where each worker loop stands
    watt,          \* the attempt_no each worker opened (0: none)
    werr,          \* the error of the last store or ledger call of a worker
    ilog           \* interventions recorded in the audit log

coordVars == <<run, attempts, task, wpc, watt, werr, ilog>>

VARIABLES
    \* --- SharedMemory ----------------------------------------------------
    memEntries,       \* m.entries: key -> entry
    clock,           \* the reading of the wall clock
    mcall          \* the last call that returned since the clock moved

memVars == <<memEntries, clock, mcall>>

VARIABLES
    \* --- custom HTTP tools -------------------------------------------------
    customToolSpecs, \* the map customToolSpecs: name -> spec
    toolRegistry,    \* the tool registry of the package: name -> kind
    tpc,             \* where each caller stands in Upsert or Delete
    tspec,           \* the normalized spec (or the name) a caller works on
    texists,         \* customExists of a caller between lines 43 and 45
    tres,            \* what the last call of each caller returned
    listed           \* what the last ListCustomHTTPTools returned

toolVars == <<customToolSpecs, toolRegistry, tpc, tspec, texists, tres, listed>>

VARIABLES
    \* --- audit store -------------------------------------------------------
    auditRows,     \* the rows of audit_logs, by id
    acall          \* the last Record call: store, entry and what it returned

auditVars == <<auditRows, acall>>

VARIABLES
    \* --- tmpdir tool -------------------------------------------------------
    tmpdirDirs,    \* the map tmpdirDirs: path -> prefix
    fsDirs,        \* the directories on the disk
    fsFiles,       \* the regular files on the disk: path -> content
    tcall          \* the last tmpdir call: arguments, file touched, result

tmpdirVars == <<tmpdirDirs, fsDirs, fsFiles, tcall>>

\* Variables the AsyncSink operations never touch.
nonAsyncVars == <<multiVars, retryVars, backoffVars, limitVars, registryVars, coordVars, memVars, toolVars, auditVars, tmpdirVars>>
\* Variables the MultiSink operations never touch.
nonMultiVars == <<asyncVars, retryVars, backoffVars, limitVars, registryVars, coordVars, memVars, toolVars, auditVars, tmpdirVars>>
\* Variables normalizeRetryPolicy never touches.
nonRetryVars == <<asyncVars, multiVars, backoffVars, limitVars, registryVars, coordVars, memVars, toolVars, auditVars, tmpdirVars>>
\* Variables the backoff functions never touch.
nonBackoffVars == <<asyncVars, multiVars, retryVars, limitVars, registryVars, coordVars, memVars, toolVars, auditVars, tmpdirVars>>

\* Variables IsRateLimitError never touches.
nonLimitVars == <<asyncVars, multiVars, retryVars, backoffVars, registryVars, coordVars, memVars, toolVars, auditVars, tmpdirVars>>

\* Variables the registries never touch.
nonRegistryVars == <<asyncVars, multiVars, retryVars, backoffVars, limitVars, coordVars, memVars, toolVars, auditVars, tmpdirVars>>

\* Variables the coordinator never touches.
nonCoordVars == <<asyncVars, multiVars, retryVars, backoffVars, limitVars, registryVars, memVars, toolVars, auditVars, tmpdirVars>>

\* Variables SharedMemory never touches.
nonMemVars == <<asyncVars, multiVars, retryVars, backoffVars, limitVars, registryVars, coordVars, toolVars, auditVars, tmpdirVars>>

\* Variables the custom HTTP tools never touch.
nonToolVars == <<asyncVars, multiVars, retryVars, backoffVars, limitVars, registryVars, coordVars, memVars, auditVars, tmpdirVars>>

\* Variables the audit store never touches.
nonAuditVars == <<asyncVars, multiVars, retryVars, backoffVars, limitVars, registryVars, coordVars, memVars, toolVars, tmpdirVars>>

\* Variables the tmpdir tool never touches.
nonTmpdirVars == <<asyncVars, multiVars, retryVars, backoffVars, limitVars, registryVars, coordVars, memVars, toolVars, auditVars>>

vars == <<asyncVars, multiVars, retryVars, backoffVars, limitVars, registryVars, coordVars, memVars, toolVars, auditVars, tmpdirVars>>

NoEvent == [id |-> 0, ts |-> 0]

\* Event.Normalize: the timestamp defaults to now when it is unset.
Normalize(ev, now) == [ev EXCEPT !.ts = IF ev.ts = 0 THEN now ELSE ev.ts]

\* NewAsyncSink: the capacity of the queue channel made for a buffer argument.
QueueCap(b) == IF b <= 0 THEN DefaultBuffer ELSE b

\* Some Close call has returned.
CloseReturned == \E c \in Closers : cpc[c] = "returned"

\* State after NewAsyncSink(downstream, b) returned: the consumer goroutine
\* has been started (wg = 1) and waits on the empty queue.
InitAsync ==
    /\ buffer \in BufferArgs
    /\ capacity = QueueCap(buffer)
    /\ queue = <<>>
    /\ queueCloses = 0
    /\ doneCloses = 0
    /\ wg = 1
    /\ once = "idle"
    /\ loopPc = "recv"
    /\ cur = NoEvent
    /\ received = <<>>
    /\ epc = [e \in Emitters |-> "idle"]
    /\ eev = [e \in Emitters |-> NoEvent]
    /\ ectx = [e \in Emitters |-> FALSE]
    /\ eres = [e \in Emitters |-> "none"]
    /\ elate = [e \in Emitters |-> FALSE]
    /\ cpc = [c \in Closers |-> "idle"]
    /\ emitCalls = 0
    /\ enqueued = <<>>
    /\ panicked = FALSE

\* ---------------------------------------------------------------------------
\* AsyncSink.Emit (sink.go:88-109)
\* ---------------------------------------------------------------------------

\* Faulty variant: Emit without the check of done before the send.
DoneClosedNever == FALSE

\* case <-s.done of the first select can proceed iff done has been closed.
DoneClosed == doneCloses > 0

\* Emit up to its first select (lines 88-97).  A caller passes an event and
\* a context; Normalize runs on the callee's copy of the event (line 92),
\* when the clock reads 2; these touch nothing shared, so they are one step
\* with the first select: return nil when done is closed, otherwise fall
\* through the default case to the second select.  ctx.Done() is read once,
\* at line 99, so a context cancelled during the call is represented by one
\* that is cancelled from the start.
EmitCall(e) ==
    /\ ~panicked
    /\ epc[e] = "idle"
    /\ emitCalls < MaxEmits
    /\ eev' = [eev EXCEPT ![e] =
                  Normalize([id |-> emitCalls + 1,
                             ts |-> CallerTs(emitCalls + 1)], 2)]
    /\ emitCalls' = emitCalls + 1
    /\ elate' = [elate EXCEPT ![e] = CloseReturned]
    /\ IF DoneClosed
          THEN /\ epc' = epc
               /\ eres' = [eres EXCEPT ![e] = "nil"]
               /\ ectx' = ectx
          ELSE /\ epc' = [epc EXCEPT ![e] = "select"]
               /\ eres' = [eres EXCEPT ![e] = "none"]
               /\ \E cancelled \in BOOLEAN :
                     ectx' = [ectx EXCEPT ![e] = cancelled]
    /\ UNCHANGED nonAsyncVars
    /\ UNCHANGED <<buffer, capacity, queue, queueCloses, doneCloses, wg, once,
                   loopPc, cur, received, cpc, enqueued, panicked>>

\* Faulty variant: the buffer is taken to have room while it holds capacity events.
SendReadyOffByOne == IF queueCloses > 0 THEN TRUE ELSE Len(queue) <= capacity

\* The cases of the second select (lines 98-108) that can proceed.  A send
\* on a closed channel can always proceed (it panics); a send on an open
\* channel proceeds when the buffer has room.
SendReady == IF queueCloses > 0 THEN TRUE ELSE Len(queue) < capacity

ReadyCases(e) ==
    (IF ectx[e] THEN {"ctx"} ELSE {}) \cup
    (IF doneCloses > 0 THEN {"done"} ELSE {}) \cup
    (IF SendReady THEN {"send"} ELSE {})

\* Second select: one ready case is chosen at random; default runs only
\* when no case is ready.
EmitSelect(e) ==
    /\ ~panicked
    /\ epc[e] = "select"
    /\ epc' = [epc EXCEPT ![e] = "idle"]
    /\ ectx' = [ectx EXCEPT ![e] = FALSE]
    /\ \E choice \in (IF ReadyCases(e) = {} THEN {"default"} ELSE ReadyCases(e)) :
          \/ /\ choice = "ctx"
             /\ eres' = [eres EXCEPT ![e] = "ctxErr"]
             /\ UNCHANGED <<queue, enqueued, panicked>>
          \/ /\ choice \in {"done", "default"}
             /\ eres' = [eres EXCEPT ![e] = "nil"]
             /\ UNCHANGED <<queue, enqueued, panicked>>
          \/ /\ choice = "send"
             /\ queueCloses = 0
             /\ queue' = Append(queue, eev[e])
             /\ enqueued' = Append(enqueued, eev[e])
             /\ eres' = [eres EXCEPT ![e] = "nil"]
             /\ UNCHANGED panicked
          \/ /\ choice = "send"
             /\ queueCloses > 0
             /\ eres' = [eres EXCEPT ![e] = "panic"]
             /\ panicked' = TRUE
             /\ UNCHANGED <<queue, enqueued>>
    /\ UNCHANGED nonAsyncVars
    /\ UNCHANGED <<buffer, capacity, queueCloses, doneCloses, wg, once, loopPc,
                   cur, received, eev, elate, cpc, emitCalls>>

\* ---------------------------------------------------------------------------
\* AsyncSink.loop (sink.go:122-129)
\* ---------------------------------------------------------------------------

\* Faulty variant: the receive takes the newest buffered event.
DequeuedNewest(q) == q[Len(q)]

\* A receive from the buffered channel takes the oldest event.
Dequeued(q) == Head(q)

\* range s.queue yields the oldest buffered event; the loop passes it to
\* downstream.Emit (line 126).
LoopRecv ==
    /\ ~panicked
    /\ loopPc = "recv"
    /\ Len(queue) > 0
    /\ cur' = Dequeued(queue)
    /\ queue' = Tail(queue)
    /\ received' = Append(received, Dequeued(queue))
    /\ loopPc' = "downstream"
    /\ UNCHANGED nonAsyncVars
    /\ UNCHANGED <<buffer, capacity, queueCloses, doneCloses, wg, once,
                   epc, eev, ectx, eres, elate, cpc, emitCalls,
                   enqueued, panicked>>

\* downstream.Emit returns, nil or an error: the loop discards the value
\* (line 126), so either outcome is this one step back to the range.
LoopDownstreamReturn ==
    /\ ~panicked
    /\ loopPc = "downstream"
    /\ loopPc' = "recv"
    /\ UNCHANGED nonAsyncVars
    /\ UNCHANGED <<buffer, capacity, queue, queueCloses, doneCloses, wg, once,
                   cur, received, epc, eev, ectx, eres, elate, cpc, emitCalls,
                   enqueued, panicked>>

\* The range ends when the queue is closed and empty; the deferred
\* wg.Done() runs (line 123).
LoopExit ==
    /\ ~panicked
    /\ loopPc = "recv"
    /\ Len(queue) = 0
    /\ queueCloses > 0
    /\ loopPc' = "exited"
    /\ wg' = wg - 1
    /\ UNCHANGED nonAsyncVars
    /\ UNCHANGED <<buffer, capacity, queue, queueCloses, doneCloses, once, cur,
                   received, epc, eev, ectx, eres, elate, cpc,
                   emitCalls, enqueued, panicked>>

\* ---------------------------------------------------------------------------
\* AsyncSink.Close (sink.go:111-120)
\* ---------------------------------------------------------------------------

\* Faulty variant: a once that lets a second caller in while f is running.
OnceMayRunAgain(o) == o # "done"

\* sync.Once.Do: the first caller runs f; every other caller returns only
\* when f has returned.
OnceMayRun(o) == o = "idle"
OnceMayReturn(o) == o = "done"

\* Faulty variant: Close does not wait for the consumer.
WaitReadyAlways == TRUE

\* wg.Wait() returns when the counter is zero.
WaitReady == wg = 0

CloseCall(c) ==
    /\ ~panicked
    /\ cpc[c] = "idle"
    /\ cpc' = [cpc EXCEPT ![c] = "do"]
    /\ UNCHANGED nonAsyncVars
    /\ UNCHANGED <<buffer, capacity, queue, queueCloses, doneCloses, wg, once,
                   loopPc, cur, received, epc, eev, ectx, eres, elate,
                   emitCalls, enqueued, panicked>>

\* s.once.Do(...) at line 115: enter f, or (f already finished) return from
\* Do and from Close.  A caller that finds f running waits.
CloseOnceDo(c) ==
    /\ ~panicked
    /\ cpc[c] = "do"
    /\ \/ /\ OnceMayRun(once)
          /\ once' = "running"
          /\ cpc' = [cpc EXCEPT ![c] = "closeDone"]
       \/ /\ ~OnceMayRun(once)
          /\ OnceMayReturn(once)
          /\ cpc' = [cpc EXCEPT ![c] = "returned"]
          /\ UNCHANGED once
    /\ UNCHANGED nonAsyncVars
    /\ UNCHANGED <<buffer, capacity, queue, queueCloses, doneCloses, wg,
                   loopPc, cur, received, epc, eev, ectx, eres, elate,
                   emitCalls, enqueued, panicked>>

\* close(s.done) at line 116; closing a closed channel panics.
CloseDone(c) ==
    /\ ~panicked
    /\ cpc[c] = "closeDone"
    /\ doneCloses' = doneCloses + 1
    /\ panicked' = (doneCloses > 0)
    /\ cpc' = [cpc EXCEPT ![c] = "closeQueue"]
    /\ UNCHANGED nonAsyncVars
    /\ UNCHANGED <<buffer, capacity, queue, queueCloses, wg, once, loopPc, cur,
                   received, epc, eev, ectx, eres, elate, emitCalls,
                   enqueued>>

\* close(s.queue) at line 117.
CloseQueue(c) ==
    /\ ~panicked
    /\ cpc[c] = "closeQueue"
    /\ queueCloses' = queueCloses + 1
    /\ panicked' = (queueCloses > 0)
    /\ cpc' = [cpc EXCEPT ![c] = "wait"]
    /\ UNCHANGED nonAsyncVars
    /\ UNCHANGED <<buffer, capacity, queue, doneCloses, wg, once, loopPc, cur,
                   received, epc, eev, ectx, eres, elate, emitCalls,
                   enqueued>>

\* s.wg.Wait() at line 118 returns, f returns, once.Do returns, Close returns.
CloseWait(c) ==
    /\ ~panicked
    /\ cpc[c] = "wait"
    /\ WaitReady
    /\ once' = "done"
    /\ cpc' = [cpc EXCEPT ![c] = "returned"]
    /\ UNCHANGED nonAsyncVars
    /\ UNCHANGED <<buffer, capacity, queue, queueCloses, doneCloses, wg,
                   loopPc, cur, received, epc, eev, ectx, eres, elate,
                   emitCalls, enqueued, panicked>>

NextAsync ==
    \/ \E e \in Emitters : EmitCall(e)
    \/ \E e \in Emitters : EmitSelect(e)
    \/ LoopRecv
    \/ LoopDownstreamReturn
    \/ LoopExit
    \/ \E c \in Closers : CloseCall(c)
    \/ \E c \in Closers : CloseOnceDo(c)
    \/ \E c \in Closers : CloseDone(c)
    \/ \E c \in Closers : CloseQueue(c)
    \/ \E c \in Closers : CloseWait(c)

\* ---------------------------------------------------------------------------
\* MultiSink (sink.go:30-61)
\* ---------------------------------------------------------------------------
MaxSinks == 3         \* most arguments given to NewMultiSink
MaxMultiEmits == 2    \* Emit calls on the sink NewMultiSink returned

SinkArgs == UNION {[1..n -> BOOLEAN] : n \in 0..MaxSinks}

\* NewMultiSink lines 35-41: the positions of the non-nil arguments, in order.
RECURSIVE Filtered(_, _)
Filtered(args, k) ==
    IF k > Len(args) THEN <<>>
    ELSE IF args[k] THEN <<k>> \o Filtered(args, k + 1)
    ELSE Filtered(args, k + 1)

\* NewMultiSink lines 42-48: what is returned for the filtered list.
SinkKind(filtered) ==
    IF Len(filtered) = 0 THEN "noop"
    ELSE IF Len(filtered) = 1 THEN "single"
    ELSE "multi"

\* State after NewMultiSink(args...) returned.
InitMulti ==
    /\ margs \in SinkArgs
    /\ msinks = Filtered(margs, 1)
    /\ mkind = SinkKind(msinks)
    /\ mpc = "idle"
    /\ mi = 0
    /\ mseen = <<>>
    /\ mres = -1
    /\ mcalls = 0

\* A caller invokes Emit on the returned sink with a fresh event.
MultiEmitCall ==
    /\ mpc = "idle"
    /\ mcalls < MaxMultiEmits
    /\ mcalls' = mcalls + 1
    /\ mpc' = "range"
    /\ mi' = 1
    /\ mseen' = <<>>
    /\ mres' = -1
    /\ UNCHANGED <<margs, mkind, msinks>>
    /\ UNCHANGED nonMultiVars

\* Faulty variant: the loop steps over a sink.
NextSinkSkipping(i) == i + 2

\* The index the range loop moves to after sink number i returned nil.
NextSink(i) == i + 1

\* One iteration of the range loop (lines 55-59): sink.Emit is called with
\* the event and returns nil or its error; an error ends Emit at once.
MultiSinkEmit ==
    /\ mpc = "range"
    /\ mi <= Len(msinks)
    /\ mseen' = Append(mseen, msinks[mi])
    /\ \E failed \in BOOLEAN :
          IF failed
             THEN /\ mres' = msinks[mi]
                  /\ mpc' = "idle"
                  /\ mi' = mi
             ELSE /\ mi' = NextSink(mi)
                  /\ UNCHANGED <<mres, mpc>>
    /\ UNCHANGED <<margs, mkind, msinks, mcalls>>
    /\ UNCHANGED nonMultiVars

\* The range is exhausted: return nil (line 60; NoopSink.Emit line 27).
MultiEmitReturn ==
    /\ mpc = "range"
    /\ mi > Len(msinks)
    /\ mres' = 0
    /\ mpc' = "idle"
    /\ UNCHANGED <<margs, mkind, msinks, mi, mseen, mcalls>>
    /\ UNCHANGED nonMultiVars

NextMulti ==
    \/ MultiEmitCall
    \/ MultiSinkEmit
    \/ MultiEmitReturn

\* ---------------------------------------------------------------------------
\* normalizeRetryPolicy (part_006:45-72).  Durations are in milliseconds.
\* ---------------------------------------------------------------------------
defaultBaseBackoff == 200        \* part_006:10
defaultMaxBackoff == 2000        \* part_006:11
rateLimitBaseBackoff == 30000    \* part_006:14
rateLimitMaxBackoff == 120000    \* part_006:15

\* Values a caller may put in the fields of a RetryPolicy: negative, zero
\* (unset), below, at and above the defaults.
AttemptInputs == {-1, 0, 1, 5}
BackoffInputs == {-5, 0, 100, 200, 2000, 3000}
RateLimitBackoffInputs == {-5, 0, 10000, 30000, 120000, 150000}

RetryPolicies ==
    [MaxAttempts : AttemptInputs,
     BaseBackoff : BackoffInputs,
     MaxBackoff : BackoffInputs,
     RateLimitMaxAttempts : AttemptInputs,
     RateLimitBaseBackoff : RateLimitBackoffInputs,
     RateLimitMaxBackoff : RateLimitBackoffInputs]

ZeroPolicy ==
    [MaxAttempts |-> 0, BaseBackoff |-> 0, MaxBackoff |-> 0,
     RateLimitMaxAttempts |-> 0, RateLimitBaseBackoff |-> 0,
     RateLimitMaxBackoff |-> 0]

\* Faulty variant: the rate-limit fields are left as the caller set them.
normalizeRetryPolicyNoRateLimit(in) ==
    LET o1 == IF in.MaxAttempts < 1 THEN [in EXCEPT !.MaxAttempts = 1] ELSE in
        o2 == IF o1.BaseBackoff <= 0
                 THEN [o1 EXCEPT !.BaseBackoff = defaultBaseBackoff] ELSE o1
        o3 == IF o2.MaxBackoff <= 0
                 THEN [o2 EXCEPT !.MaxBackoff = defaultMaxBackoff] ELSE o2
        o4 == IF o3.MaxBackoff < o3.BaseBackoff
                 THEN [o3 EXCEPT !.MaxBackoff = o3.BaseBackoff] ELSE o3
    IN  o4

\* Faulty variant: MaxAttempts is reset to 1 whatever the caller set.
normalizeRetryPolicyResetAttempts(in) ==
    LET o1 == [in EXCEPT !.MaxAttempts = 1]
        o2 == IF o1.BaseBackoff <= 0
                 THEN [o1 EXCEPT !.BaseBackoff = defaultBaseBackoff] ELSE o1
        o3 == IF o2.MaxBackoff <= 0
                 THEN [o2 EXCEPT !.MaxBackoff = defaultMaxBackoff] ELSE o2
        o4 == IF o3.MaxBackoff < o3.BaseBackoff
                 THEN [o3 EXCEPT !.MaxBackoff = o3.BaseBackoff] ELSE o3
        o5 == IF o4.RateLimitMaxAttempts <= 0
                 THEN [o4 EXCEPT !.RateLimitMaxAttempts = 3] ELSE o4
        o6 == IF o5.RateLimitBaseBackoff <= 0
                 THEN [o5 EXCEPT !.RateLimitBaseBackoff = rateLimitBaseBackoff]
                 ELSE o5
        o7 == IF o6.RateLimitMaxBackoff <= 0
                 THEN [o6 EXCEPT !.RateLimitMaxBackoff = rateLimitMaxBackoff]
                 ELSE o6
        o8 == IF o7.RateLimitMaxBackoff < o7.RateLimitBaseBackoff
                 THEN [o7 EXCEPT !.RateLimitMaxBackoff = o7.RateLimitBaseBackoff]
                 ELSE o7
    IN  o8

\* Faulty variant: each maximum is compared with its base before the unset
\* fields receive their defaults.
normalizeRetryPolicyClampFirst(in) ==
    LET o1 == IF in.MaxAttempts < 1 THEN [in EXCEPT !.MaxAttempts = 1] ELSE in
        o2 == IF o1.MaxBackoff < o1.BaseBackoff
                 THEN [o1 EXCEPT !.MaxBackoff = o1.BaseBackoff] ELSE o1
        o3 == IF o2.BaseBackoff <= 0
                 THEN [o2 EXCEPT !.BaseBackoff = defaultBaseBackoff] ELSE o2
        o4 == IF o3.MaxBackoff <= 0
                 THEN [o3 EXCEPT !.MaxBackoff = defaultMaxBackoff] ELSE o3
        o5 == IF o4.RateLimitMaxAttempts <= 0
                 THEN [o4 EXCEPT !.RateLimitMaxAttempts = 3] ELSE o4
        o6 == IF o5.RateLimitMaxBackoff < o5.RateLimitBaseBackoff
                 THEN [o5 EXCEPT !.RateLimitMaxBackoff = o5.RateLimitBaseBackoff]
                 ELSE o5
        o7 == IF o6.RateLimitBaseBackoff <= 0
                 THEN [o6 EXCEPT !.RateLimitBaseBackoff = rateLimitBaseBackoff]
                 ELSE o6
        o8 == IF o7.RateLimitMaxBackoff <= 0
                 THEN [o7 EXCEPT !.RateLimitMaxBackoff = rateLimitMaxBackoff]
                 ELSE o7
    IN  o8

\* The function, one LET per if statement, in source order.
normalizeRetryPolicy(in) ==
    LET o1 == IF in.MaxAttempts < 1 THEN [in EXCEPT !.MaxAttempts = 1] ELSE in
        o2 == IF o1.BaseBackoff <= 0
                 THEN [o1 EXCEPT !.BaseBackoff = defaultBaseBackoff] ELSE o1
        o3 == IF o2.MaxBackoff <= 0
                 THEN [o2 EXCEPT !.MaxBackoff = defaultMaxBackoff] ELSE o2
        o4 == IF o3.MaxBackoff < o3.BaseBackoff
                 THEN [o3 EXCEPT !.MaxBackoff = o3.BaseBackoff] ELSE o3
        o5 == IF o4.RateLimitMaxAttempts <= 0
                 THEN [o4 EXCEPT !.RateLimitMaxAttempts = 3] ELSE o4
        o6 == IF o5.RateLimitBaseBackoff <= 0
                 THEN [o5 EXCEPT !.RateLimitBaseBackoff = rateLimitBaseBackoff]
                 ELSE o5
        o7 == IF o6.RateLimitMaxBackoff <= 0
                 THEN [o6 EXCEPT !.RateLimitMaxBackoff = rateLimitMaxBackoff]
                 ELSE o6
        o8 == IF o7.RateLimitMaxBackoff < o7.RateLimitBaseBackoff
                 THEN [o7 EXCEPT !.RateLimitMaxBackoff = o7.RateLimitBaseBackoff]
                 ELSE o7
    IN  o8

InitRetry ==
    /\ rin \in RetryPolicies
    /\ rout = ZeroPolicy
    /\ rpc = "in"

\* A caller normalizes its policy.
NormalizeCall ==
    /\ rpc = "in"
    /\ rout' = normalizeRetryPolicy(rin)
    /\ rpc' = "out"
    /\ UNCHANGED rin
    /\ UNCHANGED nonRetryVars

NextRetry == NormalizeCall

\* ---------------------------------------------------------------------------
\* time.Duration (part_006:20): an int64 count of nanoseconds.  The model
\* keeps the 64 bits: a value is its residue modulo 2^64 written as four
\* digits of 16 bits, least significant first; a last digit of 32768 or more
\* is a negative number (two's complement).
\* ---------------------------------------------------------------------------
DigitBase == 65536

\* Digits of the natural number x * k + c, for 0 <= k < 32768, 0 <= c < 65536.
RECURSIVE MulDigits(_, _, _)
MulDigits(x, k, c) ==
    IF x = <<>>
        THEN IF c = 0 THEN <<>> ELSE <<c>>
        ELSE LET t == Head(x) * k + c
             IN  <<t % DigitBase>> \o MulDigits(Tail(x), k, t \div DigitBase)

\* Digits of the natural number x + y + c, for c in 0..1.
RECURSIVE AddDigits(_, _, _)
AddDigits(x, y, c) ==
    IF x = <<>> /\ y = <<>>
        THEN IF c = 0 THEN <<>> ELSE <<c>>
        ELSE LET a == IF x = <<>> THEN 0 ELSE Head(x)
                 b == IF y = <<>> THEN 0 ELSE Head(y)
                 t == a + b + c
             IN  <<t % DigitBase>> \o
                 AddDigits(IF x = <<>> THEN <<>> ELSE Tail(x),
                           IF y = <<>> THEN <<>> ELSE Tail(y),
                           t \div DigitBase)

\* Digit i of x, zero beyond its length.
DigitAt(x, i) == IF i <= Len(x) THEN x[i] ELSE 0

\* x < y for natural numbers, comparing from digit i downwards.
RECURSIVE LessFrom(_, _, _)
LessFrom(x, y, i) ==
    IF i = 0 THEN FALSE
    ELSE IF DigitAt(x, i) # DigitAt(y, i) THEN DigitAt(x, i) < DigitAt(y, i)
    ELSE LessFrom(x, y, i - 1)

NatLess(x, y) == LessFrom(x, y, IF Len(x) >= Len(y) THEN Len(x) ELSE Len(y))
NatLeq(x, y) == ~NatLess(y, x)

\* Digits of x \div k, for 0 < k < 32768, from digit i downwards with the
\* remainder r carried from the digits above.
RECURSIVE DivDigits(_, _, _, _)
DivDigits(x, k, i, r) ==
    IF i = 0 THEN <<>>
    ELSE LET t == r * DigitBase + x[i]
         IN  DivDigits(x, k, i - 1, t % k) \o <<t \div k>>

\* The low 64 bits of a natural number: what an int64 holds after overflow.
Wrap64(x) == [i \in 1..4 |-> DigitAt(x, i)]

IsNeg64(a) == a[4] >= 32768
Neg64(a) == Wrap64(AddDigits([i \in 1..4 |-> DigitBase - 1 - a[i]], <<1>>, 0))

\* Go's <, <=, +, * and / on int64; the constant operand k is in -32767..32767.
Less64(a, b) == IF IsNeg64(a) # IsNeg64(b) THEN IsNeg64(a) ELSE NatLess(a, b)
Leq64(a, b) == ~Less64(b, a)
Add64(a, b) == Wrap64(AddDigits(a, b, 0))
Mul64(a, k) == IF k >= 0 THEN Wrap64(MulDigits(a, k, 0))
                         ELSE Neg64(Wrap64(MulDigits(a, 0 - k, 0)))
Quo64(a, k) == IF IsNeg64(a) THEN Neg64(Wrap64(DivDigits(Neg64(a), k, 4, 0)))
                             ELSE Wrap64(DivDigits(a, k, 4, 0))

\* Duration literals.
Zero64 == <<0, 0, 0, 0>>
MaxInt64 == <<65535, 65535, 65535, 32767>>
Nanosecond(n) == <<n % DigitBase, n \div DigitBase, 0, 0>>
Millisecond(n) == Mul64(Mul64(Nanosecond(n), 1000), 1000)
Second(n) == Mul64(Millisecond(n), 1000)
Pow62 == <<0, 0, 0, 16384>>

\* ---------------------------------------------------------------------------
\* backoffForAttempt and rateLimitBackoffForAttempt (part_006:87-123)
\* ---------------------------------------------------------------------------
MaxRetryNumber == 4   \* largest retry number passed to the backoff functions

\* Durations a caller may put in BaseBackoff and MaxBackoff: negative, unset,
\* one nanosecond, the defaults, and values near the top of the int64 range.
GenericDurations ==
    {Neg64(Nanosecond(5)), Zero64, Nanosecond(1), Millisecond(200), Second(2),
     Pow62, MaxInt64}

\* Durations a caller may put in the rate-limit fields.
RateLimitDurations ==
    {Zero64, Nanosecond(1), Second(1), Second(10), Pow62, MaxInt64}

BackoffInputs64 ==
    [BaseBackoff : GenericDurations,
     MaxBackoff : GenericDurations,
     RateLimitBaseBackoff : RateLimitDurations,
     RateLimitMaxBackoff : RateLimitDurations]

\* normalizeRetryPolicy on the four durations, at their full width
\* (part_006:50-58 and 62-70).
normalizeBackoffs(in) ==
    LET o2 == IF Leq64(in.BaseBackoff, Zero64)
                 THEN [in EXCEPT !.BaseBackoff = Millisecond(defaultBaseBackoff)]
                 ELSE in
        o3 == IF Leq64(o2.MaxBackoff, Zero64)
                 THEN [o2 EXCEPT !.MaxBackoff = Millisecond(defaultMaxBackoff)]
                 ELSE o2
        o4 == IF Less64(o3.MaxBackoff, o3.BaseBackoff)
                 THEN [o3 EXCEPT !.MaxBackoff = o3.BaseBackoff] ELSE o3
        o6 == IF Leq64(o4.RateLimitBaseBackoff, Zero64)
                 THEN [o4 EXCEPT !.RateLimitBaseBackoff =
                                     Millisecond(rateLimitBaseBackoff)]
                 ELSE o4
        o7 == IF Leq64(o6.RateLimitMaxBackoff, Zero64)
                 THEN [o6 EXCEPT !.RateLimitMaxBackoff =
                                     Millisecond(rateLimitMaxBackoff)]
                 ELSE o6
        o8 == IF Less64(o7.RateLimitMaxBackoff, o7.RateLimitBaseBackoff)
                 THEN [o7 EXCEPT !.RateLimitMaxBackoff = o7.RateLimitBaseBackoff]
                 ELSE o7
    IN  o8

\* The loop of backoffForAttempt from iteration i on, and the statements
\* after it (lines 113-122).
RECURSIVE backoffLoop(_, _, _, _)
backoffLoop(p, retryNumber, delay, i) ==
    IF i < retryNumber
        THEN LET doubled == Mul64(delay, 2)
             IN  IF Leq64(p.MaxBackoff, doubled)
                     THEN p.MaxBackoff
                     ELSE backoffLoop(p, retryNumber, doubled, i + 1)
        ELSE IF Less64(p.MaxBackoff, delay) THEN p.MaxBackoff ELSE delay

backoffForAttempt(p, retryNumber) ==
    backoffLoop(p, IF retryNumber < 1 THEN 1 ELSE retryNumber, p.BaseBackoff, 1)

\* The loop of rateLimitBackoffForAttempt from iteration i on (lines 92-98):
\* the value of delay when the loop ends.
RECURSIVE rateLimitLoop(_, _, _, _)
rateLimitLoop(p, retryNumber, delay, i) ==
    IF i < retryNumber
        THEN LET grown == Quo64(Mul64(delay, 3), 2)
             IN  IF Leq64(p.RateLimitMaxBackoff, grown)
                     THEN p.RateLimitMaxBackoff
                     ELSE rateLimitLoop(p, retryNumber, grown, i + 1)
        ELSE delay

\* Values of rand.Float64(), in thousandths: it returns a number in [0, 1).
Float64Draws == {0, 250, 500, 750, 999}

\* time.Duration(f*0.4 - 0.2) for f = r/1000: the conversion of a float to
\* an integer type drops the fraction (truncation towards zero).
JitterFactor(r) ==
    LET num == r * 4 - 2000
    IN  IF num >= 0 THEN num \div 10000 ELSE 0 - ((0 - num) \div 10000)

rateLimitBackoffForAttempt(p, retryNumber, r) ==
    LET n == IF retryNumber < 1 THEN 1 ELSE retryNumber
        looped == rateLimitLoop(p, n, p.RateLimitBaseBackoff, 1)
        delay == IF Less64(p.RateLimitMaxBackoff, looped)
                    THEN p.RateLimitMaxBackoff ELSE looped
        jitter == Mul64(delay, JitterFactor(r))
    IN  Add64(delay, jitter)

\* The retry number of the k-th call: the calls go through -1, 0, 1, 2, ...
RetryNumberOf(k) == k - 2

\* An agent loop holds a normalized policy.
InitBackoff ==
    /\ bpol \in {normalizeBackoffs(in) : in \in BackoffInputs64}
    /\ gdelays = <<>>
    /\ rdelays = <<>>

\* The delay before the next retry after a generic failure.
BackoffCall ==
    /\ Len(gdelays) < MaxRetryNumber + 2
    /\ gdelays' = Append(gdelays,
                         backoffForAttempt(bpol, RetryNumberOf(Len(gdelays) + 1)))
    /\ UNCHANGED <<bpol, rdelays>>
    /\ UNCHANGED nonBackoffVars

\* The delay before the next retry after a rate-limit failure.
RateLimitBackoffCall ==
    /\ Len(rdelays) < MaxRetryNumber + 2
    /\ \E r \in Float64Draws :
          rdelays' = Append(rdelays,
                            rateLimitBackoffForAttempt(
                                bpol, RetryNumberOf(Len(rdelays) + 1), r))
    /\ UNCHANGED <<bpol, gdelays>>
    /\ UNCHANGED nonBackoffVars

NextBackoff ==
    \/ BackoffCall
    \/ RateLimitBackoffCall

\* ---------------------------------------------------------------------------
\* IsRateLimitError (part_006:75-84).  A string is the sequence of its
\* characters.
\* ---------------------------------------------------------------------------
MaxFragments == 3     \* most fragments an error message is put together from

UpperLetters ==
    <<"A", "B", "C", "D", "E", "F", "G", "H", "I", "J", "K", "L", "M", "N",
      "O", "P", "Q", "R", "S", "T", "U", "V", "W", "X", "Y", "Z">>
LowerLetters ==
    <<"a", "b", "c", "d", "e", "f", "g", "h", "i", "j", "k", "l", "m", "n",
      "o", "p", "q", "r", "s", "t", "u", "v", "w", "x", "y", "z">>

\* The substrings IsRateLimitError looks for (lines 80-83).
PatRateLimitUnderscore == <<"r", "a", "t", "e", "_", "l", "i", "m", "i", "t">>
PatRateLimitSpace == <<"r", "a", "t", "e", " ", "l", "i", "m", "i", "t">>
Pat429 == <<"4", "2", "9">>
PatTooManyRequests ==
    <<"t", "o", "o", " ", "m", "a", "n", "y", " ",
      "r", "e", "q", "u", "e", "s", "t", "s">>

\* Pieces of error messages: the words of the patterns in lower, upper and
\* mixed case, their separators, and pieces that complete no pattern.
MessageFragments ==
    {<<"r", "a", "t", "e">>, <<"R", "a", "t", "e">>,
     <<"_">>, <<" ">>,
     <<"l", "i", "m", "i", "t">>, <<"L", "I", "M", "I", "T">>,
     <<"4", "2", "9">>, <<"4", "2">>, <<"9">>,
     <<"T", "o", "o", " ", "M", "a", "n", "y">>,
     <<" ", "R", "e", "q", "u", "e", "s", "t", "s">>,
     PatTooManyRequests,
     <<"e", "r", "r", "o", "r">>}

\* The messages made of exactly n fragments.
RECURSIVE MessagesOf(_)
MessagesOf(n) ==
    IF n = 0 THEN {<<>>}
    ELSE {m \o f : m \in MessagesOf(n - 1), f \in MessageFragments}

Messages == UNION {MessagesOf(n) : n \in 0..MaxFragments}

\* An error value: nil, or an error whose Error() is msg.
NilError == [nil |-> TRUE, msg |-> <<>>]
Errors == {NilError} \cup {[nil |-> FALSE, msg |-> m] : m \in Messages}

\* Faulty variant: a ToLower that leaves every character as it is.
ToLowerCharIdentity(c) == c

\* strings.ToLower, character by character.
ToLowerChar(c) ==
    IF \E i \in 1..Len(UpperLetters) : UpperLetters[i] = c
        THEN LowerLetters[CHOOSE i \in 1..Len(UpperLetters) : UpperLetters[i] = c]
        ELSE c

ToLower(s) == [i \in 1..Len(s) |-> ToLowerChar(s[i])]

\* strings.Contains: substr occurs in s at some offset.
Contains(s, substr) ==
    \E i \in 0..(Len(s) - Len(substr)) :
        SubSeq(s, i + 1, i + Len(substr)) = substr

IsRateLimitError(err) ==
    IF err.nil
        THEN FALSE
        ELSE LET errStr == ToLower(err.msg)
             IN  \/ Contains(errStr, PatRateLimitUnderscore)
                 \/ Contains(errStr, PatRateLimitSpace)
                 \/ Contains(errStr, Pat429)
                 \/ Contains(errStr, PatTooManyRequests)

InitRateLimit ==
    /\ lerr \in Errors
    /\ lres = FALSE
    /\ lpc = "in"

\* The agent loop classifies the error of a provider call.
IsRateLimitErrorCall ==
    /\ lpc = "in"
    /\ lres' = IsRateLimitError(lerr)
    /\ lpc' = "out"
    /\ UNCHANGED lerr
    /\ UNCHANGED nonLimitVars

NextRateLimit == IsRateLimitErrorCall

\* ---------------------------------------------------------------------------
\* The skill registry (skill/registry.go, skill/loader.go, part_001) and the
\* flow registry (flow/flow.go).  A *Skill or *Definition is a record: nil,
\* or an object with its Name and an id that tells two objects of the same
\* name apart.  A Go map is a function whose domain is the set of its keys.
\* ---------------------------------------------------------------------------
MaxObjects == 2       \* objects of one name that callers hold
NumLoaders == 2       \* goroutines that run loadSkillFile
MaxEntries == 2       \* SKILL.md files under a directory given to LoadFromDir

Nil == [nil |-> TRUE, Name |-> "", id |-> 0]
Object(name, id) == [nil |-> FALSE, Name |-> name, id |-> id]

EmptyMap == [n \in {} |-> Nil]
MapSet(m, k, v) == [n \in DOMAIN m \cup {k} |-> IF n = k THEN v ELSE m[n]]
MapDelete(m, k) == [n \in DOMAIN m \ {k} |-> m[n]]

\* Faulty variant: a slice without the last built-in skill.
builtinSkillsWithoutLast ==
    <<Object("k8s-debug", 0), Object("incident-response", 0),
      Object("code-audit", 0)>>

\* builtinSkills, in the order of the slice.
builtinSkills ==
    <<Object("k8s-debug", 0), Object("incident-response", 0),
      Object("code-audit", 0), Object("secure-defaults", 0)>>

\* The skill names of the model in the order of Go's < on strings.
SkillNameOrder ==
    <<"code-audit", "incident-response", "k8s-debug", "my-skill",
      "secure-defaults">>

\* Arguments of the calls: nil, an object without a name, objects that
\* share a name with a built-in skill, and objects with a name of their own.
SkillArgs ==
    {Nil} \cup {Object(n, i) : n \in {"", "k8s-debug", "my-skill"},
                               i \in 1..MaxObjects}
SkillLookups == {"", "k8s-debug", "my-skill"}
FlowArgs ==
    {Nil} \cup {Object(n, i) : n \in {"", "triage", "review"},
                               i \in 1..MaxObjects}
FlowLookups == {"", "triage", "review"}

\* What ParseFile returns to loader l: an error, or a fresh skill with the
\* name the file declares.
ParseOutcomes(l) ==
    {[err |-> TRUE, s |-> Nil]} \cup
    {[err |-> FALSE, s |-> Object(n, MaxObjects + l)] :
        n \in {"k8s-debug", "my-skill"}}

\* Faulty variant: Register without the test for a registered name.
RegisterOverwriting(reg, s) ==
    IF s.nil THEN [reg |-> reg, err |-> "is nil"]
    ELSE IF s.Name = "" THEN [reg |-> reg, err |-> "name is required"]
    ELSE [reg |-> MapSet(reg, s.Name, s), err |-> "nil"]

\* skill.Register (registry.go:15-29): the registry afterwards and the error.
Register(reg, s) ==
    IF s.nil THEN [reg |-> reg, err |-> "is nil"]
    ELSE IF s.Name = "" THEN [reg |-> reg, err |-> "name is required"]
    ELSE IF s.Name \in DOMAIN reg
        THEN [reg |-> reg, err |-> "already registered"]
    ELSE [reg |-> MapSet(reg, s.Name, s), err |-> "nil"]

\* skill.Get (registry.go:39-44).
Get(reg, name) ==
    IF name \in DOMAIN reg THEN [s |-> reg[name], ok |-> TRUE]
                           ELSE [s |-> Nil, ok |-> FALSE]

\* a < b on the strings of the model.
StringLess(a, b) ==
    \E i, j \in 1..Len(SkillNameOrder) :
        SkillNameOrder[i] = a /\ SkillNameOrder[j] = b /\ i < j

\* sort.Strings on the keys collected from the map.
RECURSIVE SortStrings(_)
SortStrings(S) ==
    IF S = {} THEN <<>>
    ELSE LET least == CHOOSE n \in S : \A m \in S : ~StringLess(m, n)
         IN  <<least>> \o SortStrings(S \ {least})

\* Faulty variant: Names in descending order.
NamesReversed(reg) ==
    LET sorted == SortStrings(DOMAIN reg)
    IN  [i \in 1..Len(sorted) |-> sorted[Len(sorted) + 1 - i]]

\* skill.Names (registry.go:47-56).
Names(reg) == SortStrings(DOMAIN reg)

\* The second half of skill.All (registry.go:61-67): a key that is no
\* longer in the map reads as nil.
AllOf(reg, names) ==
    [i \in 1..Len(names) |->
        IF names[i] \in DOMAIN reg THEN reg[names[i]] ELSE Nil]

\* Faulty variant: a Remove that always reports that the name existed.
RemoveAlwaysTrue(reg, name) == [reg |-> MapDelete(reg, name), ok |-> TRUE]

\* skill.Remove (registry.go:71-79).
Remove(reg, name) ==
    IF name \in DOMAIN reg THEN [reg |-> MapDelete(reg, name), ok |-> TRUE]
                           ELSE [reg |-> reg, ok |-> FALSE]

\* skill.Count (registry.go:82-86).
Count(reg) == Cardinality(DOMAIN reg)

\* RegisterBuiltins (part_001:5-9) from the i-th built-in skill on.
RECURSIVE RegisterBuiltinsFrom(_, _)
RegisterBuiltinsFrom(reg, i) ==
    IF i > Len(builtinSkills) THEN reg
    ELSE RegisterBuiltinsFrom(Register(reg, builtinSkills[i]).reg, i + 1)

\* flow.Register (flow.go:31-45).
FlowRegister(reg, f) ==
    IF f.nil THEN [reg |-> reg, err |-> "is nil"]
    ELSE IF f.Name = "" THEN [reg |-> reg, err |-> "name is required"]
    ELSE IF f.Name \in DOMAIN reg
        THEN [reg |-> reg, err |-> "already registered"]
    ELSE [reg |-> MapSet(reg, f.Name, f), err |-> "nil"]

\* Faulty variant: an Upsert that keeps the definition bound first.
UpsertKeepingFirst(reg, f) ==
    IF f.nil THEN [reg |-> reg, err |-> "is nil"]
    ELSE IF f.Name = "" THEN [reg |-> reg, err |-> "name is required"]
    ELSE IF f.Name \in DOMAIN reg THEN [reg |-> reg, err |-> "nil"]
    ELSE [reg |-> MapSet(reg, f.Name, f), err |-> "nil"]

\* flow.Upsert (flow.go:55-66).
Upsert(reg, f) ==
    IF f.nil THEN [reg |-> reg, err |-> "is nil"]
    ELSE IF f.Name = "" THEN [reg |-> reg, err |-> "name is required"]
    ELSE [reg |-> MapSet(reg, f.Name, f), err |-> "nil"]

\* flow.Get (flow.go:76-81).
FlowGet(reg, name) ==
    IF name \in DOMAIN reg THEN [s |-> reg[name], ok |-> TRUE]
                           ELSE [s |-> Nil, ok |-> FALSE]

\* flow.Delete (flow.go:108-116).
Delete(reg, name) ==
    IF name \notin DOMAIN reg THEN [reg |-> reg, ok |-> FALSE]
                              ELSE [reg |-> MapDelete(reg, name), ok |-> TRUE]

NoCall == [op |-> "none", arg |-> Nil, res |-> "nil"]

\* Both registries start empty (registry.go:11, flow.go:27).
InitRegistry ==
    /\ skills = EmptyMap
    /\ flows = EmptyMap
    /\ call = NoCall
    /\ apc = "idle"
    /\ anames = <<>>
    /\ ldpc = [l \in 1..NumLoaders |-> "idle"]
    /\ ldskill = [l \in 1..NumLoaders |-> Nil]
    /\ ldres = [l \in 1..NumLoaders |-> "none"]

RegisterCall ==
    \E s \in SkillArgs :
        LET r == Register(skills, s)
        IN  /\ skills' = r.reg
            /\ call' = [op |-> "Register", arg |-> s, res |-> r.err]
            /\ UNCHANGED <<flows, apc, anames, ldpc, ldskill, ldres>>
            /\ UNCHANGED nonRegistryVars

GetCall ==
    \E name \in SkillLookups :
        /\ call' = [op |-> "Get", arg |-> name, res |-> Get(skills, name)]
        /\ UNCHANGED <<skills, flows, apc, anames, ldpc, ldskill, ldres>>
        /\ UNCHANGED nonRegistryVars

NamesCall ==
    /\ call' = [op |-> "Names", arg |-> "", res |-> Names(skills)]
    /\ UNCHANGED <<skills, flows, apc, anames, ldpc, ldskill, ldres>>
    /\ UNCHANGED nonRegistryVars

\* All, line 60: the call of Names, which takes and releases the lock.
AllNames ==
    /\ apc = "idle"
    /\ anames' = Names(skills)
    /\ apc' = "collect"
    /\ call' = [op |-> "Names", arg |-> "All", res |-> Names(skills)]
    /\ UNCHANGED <<skills, flows, ldpc, ldskill, ldres>>
    /\ UNCHANGED nonRegistryVars

\* All, lines 61-67: the lock is taken again and the skills are read.
AllCollect ==
    /\ apc = "collect"
    /\ call' = [op |-> "All", arg |-> anames, res |-> AllOf(skills, anames)]
    /\ apc' = "idle"
    /\ anames' = <<>>
    /\ UNCHANGED <<skills, flows, ldpc, ldskill, ldres>>
    /\ UNCHANGED nonRegistryVars

RemoveCall ==
    \E name \in SkillLookups :
        LET r == Remove(skills, name)
        IN  /\ skills' = r.reg
            /\ call' = [op |-> "Remove", arg |-> name, res |-> r.ok]
            /\ UNCHANGED <<flows, apc, anames, ldpc, ldskill, ldres>>
            /\ UNCHANGED nonRegistryVars

CountCall ==
    /\ call' = [op |-> "Count", arg |-> "", res |-> Count(skills)]
    /\ UNCHANGED <<skills, flows, apc, anames, ldpc, ldskill, ldres>>
    /\ UNCHANGED nonRegistryVars

\* skill.Reset (registry.go:89-93).
ResetCall ==
    /\ skills' = EmptyMap
    /\ call' = [op |-> "Reset", arg |-> "", res |-> "nil"]
    /\ UNCHANGED <<flows, apc, anames, ldpc, ldskill, ldres>>
    /\ UNCHANGED nonRegistryVars

RegisterBuiltinsCall ==
    /\ skills' = RegisterBuiltinsFrom(skills, 1)
    /\ call' = [op |-> "RegisterBuiltins", arg |-> "", res |-> "nil"]
    /\ UNCHANGED <<flows, apc, anames, ldpc, ldskill, ldres>>
    /\ UNCHANGED nonRegistryVars

FlowRegisterCall ==
    \E f \in FlowArgs :
        LET r == FlowRegister(flows, f)
        IN  /\ flows' = r.reg
            /\ call' = [op |-> "flow.Register", arg |-> f, res |-> r.err]
            /\ UNCHANGED <<skills, apc, anames, ldpc, ldskill, ldres>>
            /\ UNCHANGED nonRegistryVars

UpsertCall ==
    \E f \in FlowArgs :
        LET r == Upsert(flows, f)
        IN  /\ flows' = r.reg
            /\ call' = [op |-> "flow.Upsert", arg |-> f, res |-> r.err]
            /\ UNCHANGED <<skills, apc, anames, ldpc, ldskill, ldres>>
            /\ UNCHANGED nonRegistryVars

FlowGetCall ==
    \E name \in FlowLookups :
        /\ call' = [op |-> "flow.Get", arg |-> name, res |-> FlowGet(flows, name)]
        /\ UNCHANGED <<skills, flows, apc, anames, ldpc, ldskill, ldres>>
        /\ UNCHANGED nonRegistryVars

DeleteCall ==
    \E name \in FlowLookups :
        LET r == Delete(flows, name)
        IN  /\ flows' = r.reg
            /\ call' = [op |-> "flow.Delete", arg |-> name, res |-> r.ok]
            /\ UNCHANGED <<skills, apc, anames, ldpc, ldskill, ldres>>
            /\ UNCHANGED nonRegistryVars

\* loadSkillFile (loader.go:100-110) when no other call runs between its
\* lookup and its registration: parsed is what ParseFile returned.
loadSkillFile(reg, parsed) ==
    IF parsed.err THEN [reg |-> reg, err |-> "parse error"]
    ELSE IF Get(reg, parsed.s.Name).ok THEN [reg |-> reg, err |-> "nil"]
    ELSE Register(reg, parsed.s)

\* The loop of LoadFromDir (loader.go:44-78) from the i-th SKILL.md on:
\* entries are the files found, those of the .curated, .experimental and
\* .system sub-directories included, in the order they are visited.
RECURSIVE LoadFromDirFrom(_, _, _, _)
LoadFromDirFrom(reg, entries, i, loaded) ==
    IF i > Len(entries) THEN [reg |-> reg, loaded |-> loaded]
    ELSE LET r == loadSkillFile(reg, entries[i])
         IN  LoadFromDirFrom(r.reg, entries, i + 1,
                             IF r.err = "nil" THEN loaded + 1 ELSE loaded)

\* What a directory may hold: up to MaxEntries files.
DirContents ==
    UNION {[1..n -> ParseOutcomes(1)] : n \in 0..MaxEntries}

LoadFromDirCall ==
    \E entries \in DirContents :
        LET r == LoadFromDirFrom(skills, entries, 1, 0)
        IN  /\ skills' = r.reg
            /\ call' = [op |-> "LoadFromDir", arg |-> entries, res |-> r.loaded]
            /\ UNCHANGED <<flows, apc, anames, ldpc, ldskill, ldres>>
            /\ UNCHANGED nonRegistryVars

\* Calls on the skill registry.
NextSkill ==
    \/ RegisterCall
    \/ GetCall
    \/ NamesCall
    \/ AllNames
    \/ AllCollect
    \/ RemoveCall
    \/ CountCall
    \/ ResetCall
    \/ RegisterBuiltinsCall
    \/ LoadFromDirCall

\* Registration, lookup and removal in both registries.
NextRegistry ==
    \/ RegisterCall
    \/ GetCall
    \/ RemoveCall
    \/ FlowRegisterCall
    \/ UpsertCall
    \/ FlowGetCall
    \/ DeleteCall

\* loadSkillFile, lines 101-108: the file is parsed and the name looked up.
LoadGet(l) ==
    /\ ldpc[l] = "idle"
    /\ \E parsed \in ParseOutcomes(l) :
          IF parsed.err
              THEN /\ ldres' = [ldres EXCEPT ![l] = "parse error"]
                   /\ UNCHANGED <<ldpc, ldskill>>
          ELSE IF Get(skills, parsed.s.Name).ok
              THEN /\ ldres' = [ldres EXCEPT ![l] = "nil"]
                   /\ UNCHANGED <<ldpc, ldskill>>
          ELSE /\ ldpc' = [ldpc EXCEPT ![l] = "register"]
               /\ ldskill' = [ldskill EXCEPT ![l] = parsed.s]
               /\ ldres' = [ldres EXCEPT ![l] = "none"]
    /\ UNCHANGED <<skills, flows, call, apc, anames>>
    /\ UNCHANGED nonRegistryVars

\* loadSkillFile, line 109: return Register(s).
LoadRegister(l) ==
    /\ ldpc[l] = "register"
    /\ LET r == Register(skills, ldskill[l])
       IN  /\ skills' = r.reg
           /\ ldres' = [ldres EXCEPT ![l] = r.err]
    /\ ldpc' = [ldpc EXCEPT ![l] = "idle"]
    /\ ldskill' = [ldskill EXCEPT ![l] = Nil]
    /\ UNCHANGED <<flows, call, apc, anames>>
    /\ UNCHANGED nonRegistryVars

\* Loaders start on a registry that holds any of the names already.
InitLoad ==
    /\ skills \in {[n \in D |-> Object(n, 1)] : D \in SUBSET {"k8s-debug", "my-skill"}}
    /\ flows = EmptyMap
    /\ call = NoCall
    /\ apc = "idle"
    /\ anames = <<>>
    /\ ldpc = [l \in 1..NumLoaders |-> "idle"]
    /\ ldskill = [l \in 1..NumLoaders |-> Nil]
    /\ ldres = [l \in 1..NumLoaders |-> "none"]

NextLoad ==
    \/ \E l \in 1..NumLoaders : LoadGet(l)
    \/ \E l \in 1..NumLoaders : LoadRegister(l)

\* ---------------------------------------------------------------------------
\* The coordinator: State Store, Attempt Ledger, Queue and worker loop for
\* one run (spec.md 4.1, 4.2, 4.3, 4.6, 4.7).  Time is kept as two facts:
\* whether the visibility of the claimed task has run out, and whether an
\* attempt is older than heartbeat_timeout.
\* ---------------------------------------------------------------------------
NumWorkers == 2       \* worker loops
MaxAttemptRows == 2   \* attempt rows the ledger holds for the run
MaxDeliveries == 1    \* max_deliveries
MaxRunAttempts == 2   \* max_attempts of the run
MaxInterventions == 1 \* interventions the operator sends

TerminalStatuses == {"succeeded", "failed", "cancelled", "dead-letter"}

\* The attempts of the run that are in flight.
InFlight(atts) == {n \in 1..Len(atts) : atts[n].status = "in-flight"}

\* Faulty variant: an OpenAttempt without the unique-in-flight constraint.
OpenAttemptUnconstrained(atts, w) ==
    [atts |-> Append(atts, [status |-> "in-flight", aged |-> FALSE]),
     err |-> "nil"]

\* OpenAttempt(run_id, worker_id): rejects a second in-flight attempt.
OpenAttempt(atts, w) ==
    IF InFlight(atts) # {}
        THEN [atts |-> atts, err |-> "DuplicateInFlight"]
        ELSE [atts |-> Append(atts, [status |-> "in-flight", aged |-> FALSE]),
              err |-> "nil"]

\* CloseAttempt(run_id, attempt_no, status): closes the attempt if it is
\* still in flight.
CloseAttempt(atts, n, status) ==
    IF n \in InFlight(atts)
        THEN [atts |-> [atts EXCEPT ![n] = [status |-> status, aged |-> FALSE]],
              err |-> "nil"]
        ELSE [atts |-> atts, err |-> "StaleState"]

\* MarkLost(run_id): closes the current in-flight attempt as lost.
MarkLost(atts) ==
    [n \in 1..Len(atts) |->
        IF atts[n].status = "in-flight" THEN [status |-> "lost", aged |-> FALSE]
                                        ELSE atts[n]]

\* Faulty variant: an UpdateRun that only checks expected_status.
UpdateRunUnguarded(r, patch, expected) ==
    IF expected # {} /\ r.status \notin expected
        THEN [run |-> r, err |-> "StaleState"]
        ELSE [run |-> [status |-> patch.status,
                       attempts_used |-> r.attempts_used + patch.used],
              err |-> "nil"]

\* UpdateRun(run_id, patch, expected_status?): terminal statuses are
\* immutable, and the update is applied only if the status is an expected one
\* (expected = {} when the caller gives none).
UpdateRun(r, patch, expected) ==
    IF r.status \in TerminalStatuses
        THEN [run |-> r, err |-> "AlreadyTerminal"]
    ELSE IF expected # {} /\ r.status \notin expected
        THEN [run |-> r, err |-> "StaleState"]
    ELSE [run |-> [status |-> patch.status,
                   attempts_used |-> r.attempts_used + patch.used],
          err |-> "nil"]

\* A task that is not acknowledged becomes claimable again; after
\* max_deliveries redeliveries it is moved to the DLQ.
Release(t) ==
    [t EXCEPT !.state = IF t.deliveries > MaxDeliveries THEN "dlq" ELSE "visible",
              !.holder = 0]

\* DLQ handling: the run of a task moved to the DLQ moves to dead-letter.
DeadLetter(r, t) ==
    IF t.state = "dlq"
        THEN UpdateRun(r, [status |-> "dead-letter", used |-> 0], {}).run
        ELSE r

\* Ack and Nack of the task by worker w: only the consumer that holds the
\* task can take it out of pending or return it.
Ack(t, w) ==
    IF t.state = "pending" /\ t.holder = w
        THEN [t EXCEPT !.state = "none", !.holder = 0] ELSE t
Nack(t, w) ==
    IF t.state = "pending" /\ t.holder = w THEN Release(t) ELSE t

\* Enqueue: rejects a duplicate task for the run.
Enqueue(t) ==
    IF t.state \in {"visible", "pending"} THEN t
    ELSE [state |-> "visible", holder |-> 0, deliveries |-> 0]

\* After Submit: the run is pending and its task is in the queue.
InitCoord ==
    /\ run = [status |-> "pending", attempts_used |-> 0]
    /\ attempts = <<>>
    /\ task = [state |-> "visible", holder |-> 0, deliveries |-> 0]
    /\ wpc = [w \in 1..NumWorkers |-> "idle"]
    /\ watt = [w \in 1..NumWorkers |-> 0]
    /\ werr = "nil"
    /\ ilog = 0

\* Worker loop, step 2: Claim starts the visibility timer of the task.
Claim(w) ==
    /\ wpc[w] = "idle"
    /\ task.state = "visible"
    /\ task' = [state |-> "pending", holder |-> w,
                deliveries |-> task.deliveries + 1]
    /\ wpc' = [wpc EXCEPT ![w] = "claimed"]
    /\ UNCHANGED <<run, attempts, watt, werr, ilog>>
    /\ UNCHANGED nonCoordVars

\* Step 8: the claimant sees an orphan in-flight attempt older than
\* heartbeat_timeout and calls MarkLost.
ClaimantMarkLost(w) ==
    /\ wpc[w] = "claimed"
    /\ \E n \in InFlight(attempts) : attempts[n].aged
    /\ attempts' = MarkLost(attempts)
    /\ UNCHANGED <<run, task, wpc, watt, werr, ilog>>
    /\ UNCHANGED nonCoordVars

\* Step 3: the guard OpenAttempt; on conflict the worker Nacks.
Guard(w) ==
    /\ wpc[w] = "claimed"
    /\ ~\E n \in InFlight(attempts) : attempts[n].aged
    /\ Len(attempts) < MaxAttemptRows
    /\ LET r == OpenAttempt(attempts, w)
       IN  /\ attempts' = r.atts
           /\ werr' = r.err
           /\ IF r.err = "nil"
                 THEN /\ wpc' = [wpc EXCEPT ![w] = "opened"]
                      /\ watt' = [watt EXCEPT ![w] = Len(r.atts)]
                      /\ UNCHANGED <<task, run>>
                 ELSE /\ wpc' = [wpc EXCEPT ![w] = "idle"]
                      /\ task' = Nack(task, w)
                      /\ run' = IF task'.state # task.state
                                    THEN DeadLetter(run, task') ELSE run
                      /\ UNCHANGED watt
    /\ UNCHANGED ilog
    /\ UNCHANGED nonCoordVars

\* Step 4: the run goes from pending or failed to claimed by a guarded
\* UpdateRun; on a stale state the worker Acks and continues.
TransitionRun(w) ==
    /\ wpc[w] = "opened"
    /\ LET r == UpdateRun(run, [status |-> "claimed", used |-> 1],
                          {"pending", "failed"})
       IN  /\ run' = r.run
           /\ werr' = r.err
           /\ IF r.err = "nil"
                 THEN /\ wpc' = [wpc EXCEPT ![w] = "running"]
                      /\ UNCHANGED <<task, watt>>
                 ELSE /\ wpc' = [wpc EXCEPT ![w] = "idle"]
                      /\ watt' = [watt EXCEPT ![w] = 0]
                      /\ task' = Ack(task, w)
    /\ UNCHANGED <<attempts, ilog>>
    /\ UNCHANGED nonCoordVars

\* Step 7: CloseAttempt, UpdateRun to the terminal status or back to
\* pending when the failure is retriable and attempts remain, Ack, and the
\* re-Enqueue.  A worker whose attempt was closed by someone else stops.
Finalize(w) ==
    /\ wpc[w] = "running"
    /\ \E outcome \in {"succeeded", "failed"} :
          LET c == CloseAttempt(attempts, watt[w], outcome)
              retry == outcome = "failed" /\ run.attempts_used < MaxRunAttempts
              r == UpdateRun(run, [status |-> IF retry THEN "pending" ELSE outcome,
                                   used |-> 0], {})
              acked == Ack(task, w)
          IN  /\ attempts' = c.atts
              /\ IF c.err = "nil"
                    THEN /\ run' = r.run
                         /\ werr' = r.err
                         /\ task' = IF retry /\ r.err = "nil" THEN Enqueue(acked)
                                                              ELSE acked
                    ELSE /\ werr' = c.err
                         /\ task' = acked
                         /\ UNCHANGED run
    /\ wpc' = [wpc EXCEPT ![w] = "idle"]
    /\ watt' = [watt EXCEPT ![w] = 0]
    /\ UNCHANGED ilog
    /\ UNCHANGED nonCoordVars

\* The worker process dies; it comes back as a new loop.
Crash(w) ==
    /\ wpc[w] \in {"claimed", "opened", "running"}
    /\ wpc' = [wpc EXCEPT ![w] = "idle"]
    /\ watt' = [watt EXCEPT ![w] = 0]
    /\ UNCHANGED <<run, attempts, task, werr, ilog>>
    /\ UNCHANGED nonCoordVars

\* The visibility window of the claimed task runs out: the task becomes
\* claimable again, or moves to the DLQ after max_deliveries redeliveries
\* and the run to dead-letter.  task_visibility is not shorter than
\* heartbeat_timeout, so an attempt in flight is by then older than it.
Expire ==
    /\ task.state = "pending"
    /\ attempts' = [n \in 1..Len(attempts) |->
                       IF n \in InFlight(attempts)
                           THEN [attempts[n] EXCEPT !.aged = TRUE]
                           ELSE attempts[n]]
    /\ task' = Release(task)
    /\ run' = DeadLetter(run, task')
    /\ UNCHANGED <<wpc, watt, werr, ilog>>
    /\ UNCHANGED nonCoordVars

\* heartbeat_timeout passes for an attempt in flight.
Age ==
    /\ \E n \in InFlight(attempts) : ~attempts[n].aged
    /\ attempts' = [n \in 1..Len(attempts) |->
                       IF n \in InFlight(attempts)
                           THEN [attempts[n] EXCEPT !.aged = TRUE]
                           ELSE attempts[n]]
    /\ UNCHANGED <<run, task, wpc, watt, werr, ilog>>
    /\ UNCHANGED nonCoordVars

\* Lost-worker sweeper: the worker of an attempt has not sent a heartbeat
\* for heartbeat_timeout; its in-flight attempt is closed as lost.
Sweep ==
    /\ \E n \in InFlight(attempts) :
          attempts[n].aged /\ \A w \in 1..NumWorkers : watt[w] # n
    /\ attempts' = MarkLost(attempts)
    /\ UNCHANGED <<run, task, wpc, watt, werr, ilog>>
    /\ UNCHANGED nonCoordVars

\* Interventions (4.7) and RequeueDLQ (4.6): atomic transitions sent by the
\* operator and recorded in the audit log.
Cancel ==
    /\ ilog < MaxInterventions
    /\ run.status \notin TerminalStatuses
    /\ run' = [run EXCEPT !.status = "cancelled"]
    /\ ilog' = ilog + 1
    /\ UNCHANGED <<attempts, task, wpc, watt, werr>>
    /\ UNCHANGED nonCoordVars

ForceRetry ==
    /\ ilog < MaxInterventions
    /\ run.status = "failed"
    /\ run' = [status |-> "pending", attempts_used |-> run.attempts_used]
    /\ task' = Enqueue(task)
    /\ ilog' = ilog + 1
    /\ UNCHANGED <<attempts, wpc, watt, werr>>
    /\ UNCHANGED nonCoordVars

\* RequeueDLQ fails with AttemptsExhausted when max_attempts does not permit
\* another attempt.
RequeueDLQ ==
    /\ ilog < MaxInterventions
    /\ task.state = "dlq"
    /\ run.status = "dead-letter"
    /\ IF run.attempts_used < MaxRunAttempts
          THEN /\ run' = [status |-> "pending",
                          attempts_used |-> run.attempts_used + 1]
               /\ task' = [state |-> "visible", holder |-> 0, deliveries |-> 0]
          ELSE UNCHANGED <<run, task>>
    /\ ilog' = ilog + 1
    /\ UNCHANGED <<attempts, wpc, watt, werr>>
    /\ UNCHANGED nonCoordVars

NextCoord ==
    \/ \E w \in 1..NumWorkers : Claim(w)
    \/ \E w \in 1..NumWorkers : ClaimantMarkLost(w)
    \/ \E w \in 1..NumWorkers : Guard(w)
    \/ \E w \in 1..NumWorkers : TransitionRun(w)
    \/ \E w \in 1..NumWorkers : Finalize(w)
    \/ \E w \in 1..NumWorkers : Crash(w)
    \/ Expire
    \/ Age
    \/ Sweep
    \/ Cancel
    \/ ForceRetry
    \/ RequeueDLQ

\* ---------------------------------------------------------------------------
\* multiagent.SharedMemory (part_003).  The wall clock is the variable clock:
\* CreatedAt is time.Now().UTC(), which carries no monotonic reading, so
\* time.Since(CreatedAt) is the difference of two readings of the wall clock
\* and the clock may be set back between two calls.  The fields Metadata,
\* UpdatedBy and UpdatedAt are written by Set and read by none of the
\* operations below; the memEntries of the model do not carry them.
\* ---------------------------------------------------------------------------
MaxClock == 2   \* readings the wall clock takes: 0..MaxClock
MaxTTL == 1     \* ttl values of SetWithTTL: 0..MaxTTL

MemKeys == {"plan", "task"}
MemValues == {"v1", "v2"}
AgentIDs == {"planner", "coder"}

\* The (nil, false) of Get and GetEntry.
NotFound == [value |-> "nil", ok |-> FALSE]

\* Faulty variant: an entry counts as expired from the moment its age
\* reaches its TTL.
ExpiredFromTTL(entry, t) ==
    entry.TTL > 0 /\ t - entry.CreatedAt >= entry.TTL

\* entry.TTL > 0 && time.Since(entry.CreatedAt) > entry.TTL, with the clock
\* reading t (lines 80-84, 98-102, 126, 141, 164, 201).
Expired(entry, t) ==
    entry.TTL > 0 /\ t - entry.CreatedAt > entry.TTL

\* SharedMemory.Set (lines 33-52): an existing entry keeps its CreatedBy,
\* CreatedAt and TTL.
MemSet(m, key, value, agentID, t) ==
    IF key \in DOMAIN m
        THEN [m EXCEPT ![key].Value = value]
        ELSE MapSet(m, key, [Value |-> value, CreatedBy |-> agentID,
                             CreatedAt |-> t, TTL |-> 0])

\* SharedMemory.SetWithTTL (lines 54-68): the entry is replaced.
SetWithTTL(m, key, value, agentID, ttl, t) ==
    MapSet(m, key, [Value |-> value, CreatedBy |-> agentID,
                    CreatedAt |-> t, TTL |-> ttl])

\* SharedMemory.Get (lines 70-88).
MemGet(m, key, t) ==
    IF key \notin DOMAIN m THEN NotFound
    ELSE IF Expired(m[key], t) THEN NotFound
    ELSE [value |-> m[key].Value, ok |-> TRUE]

\* SharedMemory.GetEntry (lines 90-110): a copy of the entry.
GetEntry(m, key, t) ==
    IF key \notin DOMAIN m THEN NotFound
    ELSE IF Expired(m[key], t) THEN NotFound
    ELSE [value |-> m[key], ok |-> TRUE]

\* SharedMemory.Keys (lines 119-133); the order of the slice is the order
\* of a map iteration, which Go leaves open, so the result is kept as a set.
MemKeysOf(m, t) == {k \in DOMAIN m : ~Expired(m[k], t)}

\* SharedMemory.All (lines 135-149).
MemAll(m, t) == [k \in MemKeysOf(m, t) |-> m[k].Value]

\* SharedMemory.CleanupExpired (lines 158-171).
CleanupExpired(m, t) ==
    LET gone == {k \in DOMAIN m : Expired(m[k], t)}
    IN  [m |-> [k \in DOMAIN m \ gone |-> m[k]], count |-> Cardinality(gone)]

\* SharedMemory.GetByCreator (lines 193-209).
GetByCreator(m, agentID, t) ==
    [k \in {j \in DOMAIN m : m[j].CreatedBy = agentID /\ ~Expired(m[j], t)}
        |-> m[k].Value]

\* NewSharedMemory (lines 26-31).
InitMemory ==
    /\ memEntries = EmptyMap
    /\ clock = 0
    /\ mcall = [op |-> "New", arg |-> <<>>, res |-> <<>>]

\* The wall clock moves, forward or (when it is set) back.
ClockMoves ==
    /\ \E t \in 0..MaxClock : t # clock /\ clock' = t
    /\ mcall' = [op |-> "none", arg |-> <<>>, res |-> <<>>]
    /\ UNCHANGED memEntries
    /\ UNCHANGED nonMemVars

MemSetCall ==
    \E key \in MemKeys, value \in MemValues, agentID \in AgentIDs :
        /\ memEntries' = MemSet(memEntries, key, value, agentID, clock)
        /\ mcall' = [op |-> "Set", arg |-> <<key, value, agentID>>,
                     res |-> <<>>]
        /\ UNCHANGED clock
        /\ UNCHANGED nonMemVars

SetWithTTLCall ==
    \E key \in MemKeys, value \in MemValues, agentID \in AgentIDs,
       ttl \in 0..MaxTTL :
        /\ memEntries' = SetWithTTL(memEntries, key, value, agentID, ttl, clock)
        /\ mcall' = [op |-> "SetWithTTL", arg |-> <<key, value, agentID, ttl>>,
                     res |-> <<>>]
        /\ UNCHANGED clock
        /\ UNCHANGED nonMemVars

MemGetCall ==
    \E key \in MemKeys :
        /\ mcall' = [op |-> "Get", arg |-> <<key>>,
                     res |-> MemGet(memEntries, key, clock)]
        /\ UNCHANGED <<memEntries, clock>>
        /\ UNCHANGED nonMemVars

GetEntryCall ==
    \E key \in MemKeys :
        /\ mcall' = [op |-> "GetEntry", arg |-> <<key>>,
                     res |-> GetEntry(memEntries, key, clock)]
        /\ UNCHANGED <<memEntries, clock>>
        /\ UNCHANGED nonMemVars

MemKeysCall ==
    /\ mcall' = [op |-> "Keys", arg |-> <<>>, res |-> MemKeysOf(memEntries, clock)]
    /\ UNCHANGED <<memEntries, clock>>
    /\ UNCHANGED nonMemVars

MemAllCall ==
    /\ mcall' = [op |-> "All", arg |-> <<>>, res |-> MemAll(memEntries, clock)]
    /\ UNCHANGED <<memEntries, clock>>
    /\ UNCHANGED nonMemVars

CleanupExpiredCall ==
    LET r == CleanupExpired(memEntries, clock)
    IN  /\ memEntries' = r.m
        /\ mcall' = [op |-> "CleanupExpired", arg |-> <<>>, res |-> r.count]
        /\ UNCHANGED clock
        /\ UNCHANGED nonMemVars

GetByCreatorCall ==
    \E agentID \in AgentIDs :
        /\ mcall' = [op |-> "GetByCreator", arg |-> <<agentID>>,
                     res |-> GetByCreator(memEntries, agentID, clock)]
        /\ UNCHANGED <<memEntries, clock>>
        /\ UNCHANGED nonMemVars

NextMemory ==
    \/ ClockMoves
    \/ MemSetCall
    \/ SetWithTTLCall
    \/ MemGetCall
    \/ GetEntryCall
    \/ MemKeysCall
    \/ MemAllCall
    \/ CleanupExpiredCall
    \/ GetByCreatorCall

\* ---------------------------------------------------------------------------
\* Runtime custom HTTP tools (tools/custom_http.go).  A raw string is a text
\* with or without white space around it; the names of tools are strings of
\* SkillNameOrder, so that sort.Slice by name is SortStrings.  The tool
\* registry of the package (ToolExists, UpsertTool, RemoveTool) is a map
\* guarded by its own lock.
\* ---------------------------------------------------------------------------
NumToolCallers == 2   \* goroutines that call Upsert/DeleteCustomHTTPTool

ToolCallers == 1..NumToolCallers
BuiltinToolName == "code-audit"
RawNames ==
    {[text |-> "", padded |-> TRUE], [text |-> "k8s-debug", padded |-> FALSE],
     [text |-> "k8s-debug", padded |-> TRUE],
     [text |-> BuiltinToolName, padded |-> FALSE]}
RawURLs ==
    {[text |-> "", padded |-> TRUE], [text |-> "http://host/a", padded |-> FALSE]}
CustomSpecArgs == {[Name |-> n, URL |-> u] : n \in RawNames, u \in RawURLs}
NoSpec == [Name |-> "", URL |-> ""]

\* strings.TrimSpace.
TrimSpace(raw) == raw.text

\* normalizeCustomHTTPSpec (lines 215-248): the name is trimmed and matched
\* against customToolNamePattern, the URL is trimmed and must be there.
normalizeCustomHTTPSpec(spec) ==
    IF TrimSpace(spec.Name) = ""
        THEN [spec |-> NoSpec, err |-> "invalid custom tool name"]
    ELSE IF TrimSpace(spec.URL) = ""
        THEN [spec |-> NoSpec, err |-> "url is required"]
    ELSE [spec |-> [Name |-> TrimSpace(spec.Name), URL |-> TrimSpace(spec.URL)],
          err |-> "nil"]

\* The tool registry: ToolExists, UpsertTool and RemoveTool.
ToolExists(reg, name) == name \in DOMAIN reg
UpsertTool(reg, name) == MapSet(reg, name, "custom")
RemoveTool(reg, name) == MapDelete(reg, name)

\* ListCustomHTTPTools (lines 92-114): the specs sorted by name.
ListCustomHTTPTools(specs) ==
    LET names == SortStrings(DOMAIN specs)
    IN  [i \in 1..Len(names) |-> specs[names[i]]]

InitTools ==
    /\ customToolSpecs = EmptyMap
    /\ toolRegistry = MapSet(EmptyMap, BuiltinToolName, "builtin")
    /\ tpc = [c \in ToolCallers |-> "idle"]
    /\ tspec = [c \in ToolCallers |-> NoSpec]
    /\ texists = [c \in ToolCallers |-> FALSE]
    /\ tres = [c \in ToolCallers |-> "none"]
    /\ listed = <<>>

\* UpsertCustomHTTPTool, lines 36-43: normalize, then customExists is read
\* under customToolMu.
UpsertLookup(c) ==
    /\ tpc[c] = "idle"
    /\ \E spec \in CustomSpecArgs :
          LET n == normalizeCustomHTTPSpec(spec)
          IN  IF n.err # "nil"
                 THEN /\ tres' = [tres EXCEPT ![c] = n.err]
                      /\ UNCHANGED <<tpc, tspec, texists>>
                 ELSE /\ tspec' = [tspec EXCEPT ![c] = n.spec]
                      /\ texists' = [texists EXCEPT
                                        ![c] = n.spec.Name \in DOMAIN customToolSpecs]
                      /\ tpc' = [tpc EXCEPT ![c] = "check"]
                      /\ tres' = [tres EXCEPT ![c] = "none"]
    /\ UNCHANGED <<customToolSpecs, toolRegistry, listed>>
    /\ UNCHANGED nonToolVars

\* Lines 45-47: a tool of that name that is not a custom tool is refused.
UpsertCheck(c) ==
    /\ tpc[c] = "check"
    /\ IF ToolExists(toolRegistry, tspec[c].Name) /\ ~texists[c]
          THEN /\ tres' = [tres EXCEPT ![c] = "already exists"]
               /\ tpc' = [tpc EXCEPT ![c] = "idle"]
               /\ tspec' = [tspec EXCEPT ![c] = NoSpec]
          ELSE /\ tpc' = [tpc EXCEPT ![c] = "upsert"]
               /\ UNCHANGED <<tres, tspec>>
    /\ texists' = [texists EXCEPT ![c] = FALSE]
    /\ UNCHANGED <<customToolSpecs, toolRegistry, listed>>
    /\ UNCHANGED nonToolVars

\* Lines 64-66: UpsertTool.
UpsertRegister(c) ==
    /\ tpc[c] = "upsert"
    /\ toolRegistry' = UpsertTool(toolRegistry, tspec[c].Name)
    /\ tpc' = [tpc EXCEPT ![c] = "store"]
    /\ UNCHANGED <<customToolSpecs, tspec, texists, tres, listed>>
    /\ UNCHANGED nonToolVars

\* Lines 68-71: the spec is stored under customToolMu.
UpsertStore(c) ==
    /\ tpc[c] = "store"
    /\ customToolSpecs' = MapSet(customToolSpecs, tspec[c].Name, tspec[c])
    /\ tres' = [tres EXCEPT ![c] = "nil"]
    /\ tpc' = [tpc EXCEPT ![c] = "idle"]
    /\ tspec' = [tspec EXCEPT ![c] = NoSpec]
    /\ UNCHANGED <<toolRegistry, texists, listed>>
    /\ UNCHANGED nonToolVars

\* DeleteCustomHTTPTool, lines 75-87: the spec is deleted under customToolMu.
DeleteSpec(c) ==
    /\ tpc[c] = "idle"
    /\ \E raw \in RawNames :
          LET name == TrimSpace(raw)
          IN  IF name = "" \/ name \notin DOMAIN customToolSpecs
                 THEN /\ tres' = [tres EXCEPT ![c] = "false"]
                      /\ UNCHANGED <<customToolSpecs, tpc, tspec>>
                 ELSE /\ customToolSpecs' = MapDelete(customToolSpecs, name)
                      /\ tspec' = [tspec EXCEPT ![c] = [Name |-> name, URL |-> ""]]
                      /\ tpc' = [tpc EXCEPT ![c] = "remove"]
                      /\ tres' = [tres EXCEPT ![c] = "none"]
    /\ UNCHANGED <<toolRegistry, texists, listed>>
    /\ UNCHANGED nonToolVars

\* Lines 88-89: RemoveTool.
DeleteRemove(c) ==
    /\ tpc[c] = "remove"
    /\ toolRegistry' = RemoveTool(toolRegistry, tspec[c].Name)
    /\ tres' = [tres EXCEPT ![c] = "true"]
    /\ tpc' = [tpc EXCEPT ![c] = "idle"]
    /\ tspec' = [tspec EXCEPT ![c] = NoSpec]
    /\ UNCHANGED <<customToolSpecs, texists, listed>>
    /\ UNCHANGED nonToolVars

ListCall ==
    /\ listed' = ListCustomHTTPTools(customToolSpecs)
    /\ UNCHANGED <<customToolSpecs, toolRegistry, tpc, tspec, texists, tres>>
    /\ UNCHANGED nonToolVars

NextTools ==
    \/ \E c \in ToolCallers : UpsertLookup(c)
    \/ \E c \in ToolCallers : UpsertCheck(c)
    \/ \E c \in ToolCallers : UpsertRegister(c)
    \/ \E c \in ToolCallers : UpsertStore(c)
    \/ \E c \in ToolCallers : DeleteSpec(c)
    \/ \E c \in ToolCallers : DeleteRemove(c)
    \/ ListCall

\* ---------------------------------------------------------------------------
\* sqliteAuditStore (devui/api/audit.go): the table audit_logs as the
\* sequence of its rows in the order of their ids.
\* ---------------------------------------------------------------------------
MaxAuditRows == 2   \* rows the table holds

\* The AuditLog values of the calls.
AuditLogs ==
    [ActorKeyID : {"", "key-1"}, Action : {"", "submit"},
     Resource : {"", "run"}, Payload : {"", "{}"}]

\* time.Now().UTC().Format(time.RFC3339Nano): the text of an instant.
FormatRFC3339Nano(t) == <<"RFC3339Nano", t>>

\* Faulty variant: a Record that inserts every entry.
RecordUnchecked(rows, store, entry, t, execErr) ==
    IF store = "nil" THEN [rows |-> rows, err |-> "nil"]
    ELSE IF execErr THEN [rows |-> rows, err |-> "record audit log"]
    ELSE [rows |-> Append(rows, [id |-> Len(rows) + 1,
                                 actor_key_id |-> entry.ActorKeyID,
                                 action |-> entry.Action,
                                 resource |-> entry.Resource,
                                 payload |-> entry.Payload,
                                 created_at |-> FormatRFC3339Nano(t)]),
          err |-> "nil"]

\* sqliteAuditStore.Record (lines 82-102) on a nil or an open store, at the
\* instant t, with an INSERT that fails (execErr) or not.  The id is the
\* AUTOINCREMENT key of the table (line 68).
Record(rows, store, entry, t, execErr) ==
    IF store = "nil" THEN [rows |-> rows, err |-> "nil"]
    ELSE IF entry.Action = "" \/ entry.Resource = ""
        THEN [rows |-> rows, err |-> "nil"]
    ELSE IF execErr THEN [rows |-> rows, err |-> "record audit log"]
    ELSE [rows |-> Append(rows, [id |-> Len(rows) + 1,
                                 actor_key_id |-> entry.ActorKeyID,
                                 action |-> entry.Action,
                                 resource |-> entry.Resource,
                                 payload |-> entry.Payload,
                                 created_at |-> FormatRFC3339Nano(t)]),
          err |-> "nil"]

\* NewSQLiteAuditStore (lines 50-80): the table is created empty.
InitAudit ==
    /\ auditRows = <<>>
    /\ acall = [store |-> "db", entry |-> [ActorKeyID |-> "", Action |-> "",
                                           Resource |-> "", Payload |-> ""],
                res |-> "none"]

RecordCall ==
    /\ Len(auditRows) < MaxAuditRows
    /\ \E store \in {"nil", "db"}, entry \in AuditLogs, t \in {1, 2},
          execErr \in BOOLEAN :
          LET r == Record(auditRows, store, entry, t, execErr)
          IN  /\ auditRows' = r.rows
              /\ acall' = [store |-> store, entry |-> entry, res |-> r.err]
    /\ UNCHANGED nonAuditVars

NextAudit == RecordCall

\* ---------------------------------------------------------------------------
\* The tmpdir tool (part_004).  A string that names a path is modelled as
\* the sequence of its pieces between "/" separators: "" is <<"">>,
\* "../f" is <<"..", "f">>, "/tmp/f" is <<"", "tmp", "f">> and "/" is
\* <<"", "">>.  Joining two strings with a "/" is then the concatenation of
\* their sequences.
\* ---------------------------------------------------------------------------
MaxSegments == 2     \* pieces of a fileName argument
MaxFiles == 2        \* regular files on the disk

Root == <<"", "">>
TempDir == <<"", "tmp">>
OutsideFile == <<"", "tmp", "secret">>
NoTarget == <<>>

Segments == {"", ".", "..", "f", "secret"}
FileNames == UNION {[1..n -> Segments] : n \in 1..MaxSegments}
Prefixes == {"", "job-"}
Contents == {"x"}

\* The name os.MkdirTemp gives a new directory: the prefix and a suffix.
TempName(prefix) == IF prefix = "job-" THEN "job-1" ELSE "ai-agent-1"

DirPaths ==
    {<<"">>, TempDir} \cup {TempDir \o <<TempName(p)>> : p \in {"job-", "ai-agent-"}}

\* The lexical simplification of filepath.Clean: empty and "." pieces are
\* dropped, ".." removes the piece before it, is dropped at the root and is
\* kept at the start of a relative path.
RECURSIVE CleanSegs(_, _, _)
CleanSegs(segs, stack, rooted) ==
    IF segs = <<>> THEN stack
    ELSE LET s == Head(segs)
             rest == Tail(segs)
         IN  IF s \in {"", "."} THEN CleanSegs(rest, stack, rooted)
             ELSE IF s = ".."
                  THEN IF stack # <<>> /\ stack[Len(stack)] # ".."
                       THEN CleanSegs(rest, SubSeq(stack, 1, Len(stack) - 1),
                                      rooted)
                       ELSE IF rooted THEN CleanSegs(rest, stack, rooted)
                       ELSE CleanSegs(rest, Append(stack, ".."), rooted)
                  ELSE CleanSegs(rest, Append(stack, s), rooted)

Clean(p) ==
    LET rooted == Len(p) > 1 /\ Head(p) = ""
        st == CleanSegs(p, <<>>, rooted)
    IN  IF rooted THEN (IF st = <<>> THEN Root ELSE <<"">> \o st)
        ELSE IF st = <<>> THEN <<".">> ELSE st

\* filepath.Join of two non-empty elements.
Join(a, b) == Clean(a \o b)

\* filepath.Dir: the path up to its last separator, cleaned.
Dir(p) == Clean(SubSeq(p, 1, Len(p) - 1) \o <<"">>)

\* The directories a clean rooted path lies in, itself included.
Ancestors(p) ==
    IF p = Root THEN {Root}
    ELSE {Root} \cup {SubSeq(p, 1, k) : k \in 2..Len(p)}

\* os.MkdirAll: fails when a regular file is in the way, otherwise the
\* directory and its missing parents exist afterwards.
MkdirAll(dirs, files, d) ==
    IF Ancestors(d) \cap DOMAIN files # {}
    THEN [ok |-> FALSE, dirs |-> dirs]
    ELSE [ok |-> TRUE, dirs |-> dirs \cup Ancestors(d)]

\* os.WriteFile: fails on a directory or under a missing parent, otherwise
\* the file holds the content afterwards.
WriteFile(dirs, files, p, content) ==
    IF p \in dirs \/ Dir(p) \notin dirs
    THEN [ok |-> FALSE, files |-> files]
    ELSE [ok |-> TRUE,
          files |-> [q \in DOMAIN files \cup {p} |->
                        IF q = p THEN content ELSE files[q]]]

\* os.ReadFile: the content of a regular file.
ReadFile(files, p) ==
    IF p \in DOMAIN files THEN [ok |-> TRUE, content |-> files[p]]
    ELSE [ok |-> FALSE, content |-> ""]

\* os.RemoveAll: what is left of a set of paths.
RemoveAll(paths, d) == {q \in paths : d \notin Ancestors(q)}

InitTmpdir ==
    /\ tmpdirDirs = << >>
    /\ fsDirs = {Root, TempDir}
    /\ fsFiles = (OutsideFile :> "secret")
    /\ tcall = [op |-> "none", dirPath |-> <<"">>, target |-> NoTarget,
                ok |-> FALSE, content |-> ""]

Returned(op, dirPath, target, ok, content) ==
    [op |-> op, dirPath |-> dirPath, target |-> target, ok |-> ok,
     content |-> content]

tmpdirCreate(prefix) ==
    LET pfx == IF prefix = "" THEN "ai-agent-" ELSE prefix
        dir == TempDir \o <<TempName(pfx)>>
    IN  /\ dir \notin fsDirs \cup DOMAIN fsFiles
        /\ fsDirs' = fsDirs \cup {dir}
        /\ tmpdirDirs' = [d \in DOMAIN tmpdirDirs \cup {dir} |->
                             IF d = dir THEN pfx ELSE tmpdirDirs[d]]
        /\ tcall' = Returned("create", dir, NoTarget, TRUE, "")
        /\ UNCHANGED fsFiles
        /\ UNCHANGED nonTmpdirVars

tmpdirCleanup(path) ==
    /\ IF path = <<"">> \/ path \notin DOMAIN tmpdirDirs
       THEN /\ tcall' = Returned("cleanup", path, NoTarget, FALSE, "")
            /\ UNCHANGED <<tmpdirDirs, fsDirs, fsFiles>>
       ELSE /\ tmpdirDirs' = [d \in DOMAIN tmpdirDirs \ {path} |-> tmpdirDirs[d]]
            /\ fsDirs' = RemoveAll(fsDirs, path)
            /\ fsFiles' = [q \in RemoveAll(DOMAIN fsFiles, path) |-> fsFiles[q]]
            /\ tcall' = Returned("cleanup", path, NoTarget, TRUE, "")
    /\ UNCHANGED nonTmpdirVars

tmpdirWriteFile(dirPath, fileName, content) ==
    /\ Cardinality(DOMAIN fsFiles) <= MaxFiles
    /\ IF dirPath = <<"">> \/ fileName = <<"">>
          \/ dirPath \notin DOMAIN tmpdirDirs
       THEN /\ tcall' = Returned("write_file", dirPath, NoTarget, FALSE, "")
            /\ UNCHANGED <<fsDirs, fsFiles>>
       ELSE LET filePath == Join(dirPath, fileName)
                dir == Dir(filePath)
                made == IF dir # dirPath THEN MkdirAll(fsDirs, fsFiles, dir)
                        ELSE [ok |-> TRUE, dirs |-> fsDirs]
                wrote == WriteFile(made.dirs, fsFiles, filePath, content)
            IN  /\ fsDirs' = made.dirs
                /\ fsFiles' = IF made.ok THEN wrote.files ELSE fsFiles
                /\ tcall' = Returned("write_file", dirPath, filePath,
                                     made.ok /\ wrote.ok, "")
    /\ UNCHANGED tmpdirDirs
    /\ UNCHANGED nonTmpdirVars

tmpdirReadFile(dirPath, fileName) ==
    /\ IF dirPath = <<"">> \/ fileName = <<"">>
          \/ dirPath \notin DOMAIN tmpdirDirs
       THEN tcall' = Returned("read_file", dirPath, NoTarget, FALSE, "")
       ELSE LET filePath == Join(dirPath, fileName)
                read == ReadFile(fsFiles, filePath)
            IN  tcall' = Returned("read_file", dirPath, filePath, read.ok,
                                  read.content)
    /\ UNCHANGED <<tmpdirDirs, fsDirs, fsFiles>>
    /\ UNCHANGED nonTmpdirVars

NextTmpdir ==
    \/ \E prefix \in Prefixes : tmpdirCreate(prefix)
    \/ \E path \in DirPaths : tmpdirCleanup(path)
    \/ \E dirPath \in DirPaths, fileName \in FileNames, content \in Contents :
          tmpdirWriteFile(dirPath, fileName, content)
    \/ \E dirPath \in DirPaths, fileName \in FileNames :
          tmpdirReadFile(dirPath, fileName)

\* ---------------------------------------------------------------------------
\* Specifications: one per subsystem; the other subsystems stay in a fixed
\* initial state.
\* ---------------------------------------------------------------------------
IdleAsync ==
    /\ buffer = 1
    /\ capacity = QueueCap(1)
    /\ queue = <<>>
    /\ queueCloses = 0
    /\ doneCloses = 0
    /\ wg = 1
    /\ once = "idle"
    /\ loopPc = "recv"
    /\ cur = NoEvent
    /\ received = <<>>
    /\ epc = [e \in Emitters |-> "idle"]
    /\ eev = [e \in Emitters |-> NoEvent]
    /\ ectx = [e \in Emitters |-> FALSE]
    /\ eres = [e \in Emitters |-> "none"]
    /\ elate = [e \in Emitters |-> FALSE]
    /\ cpc = [c \in Closers |-> "idle"]
    /\ emitCalls = 0
    /\ enqueued = <<>>
    /\ panicked = FALSE

IdleMulti ==
    /\ margs = <<>>
    /\ msinks = <<>>
    /\ mkind = "noop"
    /\ mpc = "idle"
    /\ mi = 0
    /\ mseen = <<>>
    /\ mres = -1
    /\ mcalls = 0

IdleRetry ==
    /\ rin = ZeroPolicy
    /\ rout = ZeroPolicy
    /\ rpc = "in"

IdleBackoff ==
    /\ bpol = normalizeBackoffs([BaseBackoff |-> Zero64, MaxBackoff |-> Zero64,
                                 RateLimitBaseBackoff |-> Zero64,
                                 RateLimitMaxBackoff |-> Zero64])
    /\ gdelays = <<>>
    /\ rdelays = <<>>

IdleLimit ==
    /\ lerr = NilError
    /\ lres = FALSE
    /\ lpc = "out"

IdleRegistry == InitRegistry

IdleCoord ==
    /\ run = [status |-> "succeeded", attempts_used |-> 0]
    /\ attempts = <<>>
    /\ task = [state |-> "none", holder |-> 0, deliveries |-> 0]
    /\ wpc = [w \in 1..NumWorkers |-> "idle"]
    /\ watt = [w \in 1..NumWorkers |-> 0]
    /\ werr = "nil"
    /\ ilog = 0

IdleMem ==
    /\ memEntries = EmptyMap
    /\ clock = 0
    /\ mcall = [op |-> "New", arg |-> <<>>, res |-> <<>>]

IdleTool == InitTools

IdleAudit == InitAudit

IdleTmpdir == InitTmpdir

Init == InitAsync /\ IdleMulti /\ IdleRetry /\ IdleBackoff /\ IdleLimit /\ IdleRegistry /\ IdleCoord /\ IdleMem /\ IdleTool /\ IdleAudit /\ IdleTmpdir
Next == NextAsync
Spec == Init /\ [][Next]_vars

MultiInit == IdleAsync /\ InitMulti /\ IdleRetry /\ IdleBackoff /\ IdleLimit /\ IdleRegistry /\ IdleCoord /\ IdleMem /\ IdleTool /\ IdleAudit /\ IdleTmpdir
SpecMulti == MultiInit /\ [][NextMulti]_vars

RetryInit == IdleAsync /\ IdleMulti /\ InitRetry /\ IdleBackoff /\ IdleLimit /\ IdleRegistry /\ IdleCoord /\ IdleMem /\ IdleTool /\ IdleAudit /\ IdleTmpdir
SpecRetry == RetryInit /\ [][NextRetry]_vars

BackoffInit == IdleAsync /\ IdleMulti /\ IdleRetry /\ InitBackoff /\ IdleLimit /\ IdleRegistry /\ IdleCoord /\ IdleMem /\ IdleTool /\ IdleAudit /\ IdleTmpdir
SpecBackoff == BackoffInit /\ [][NextBackoff]_vars

LimitInit == IdleAsync /\ IdleMulti /\ IdleRetry /\ IdleBackoff /\ InitRateLimit /\ IdleRegistry /\ IdleCoord /\ IdleMem /\ IdleTool /\ IdleAudit /\ IdleTmpdir
SpecLimit == LimitInit /\ [][NextRateLimit]_vars

RegistryInit == IdleAsync /\ IdleMulti /\ IdleRetry /\ IdleBackoff /\ IdleLimit /\ InitRegistry /\ IdleCoord /\ IdleMem /\ IdleTool /\ IdleAudit /\ IdleTmpdir
SpecRegistry == RegistryInit /\ [][NextRegistry]_vars
SpecSkill == RegistryInit /\ [][NextSkill]_vars

LoadInit == IdleAsync /\ IdleMulti /\ IdleRetry /\ IdleBackoff /\ IdleLimit /\ InitLoad /\ IdleCoord /\ IdleMem /\ IdleTool /\ IdleAudit /\ IdleTmpdir
SpecLoad == LoadInit /\ [][NextLoad]_vars

CoordInit == IdleAsync /\ IdleMulti /\ IdleRetry /\ IdleBackoff /\ IdleLimit /\ IdleRegistry /\ InitCoord /\ IdleMem /\ IdleTool /\ IdleAudit /\ IdleTmpdir
SpecCoord == CoordInit /\ [][NextCoord]_vars

MemInit == IdleAsync /\ IdleMulti /\ IdleRetry /\ IdleBackoff /\ IdleLimit /\ IdleRegistry /\ IdleCoord /\ InitMemory /\ IdleTool /\ IdleAudit /\ IdleTmpdir
SpecMemory == MemInit /\ [][NextMemory]_vars

ToolInit == IdleAsync /\ IdleMulti /\ IdleRetry /\ IdleBackoff /\ IdleLimit /\ IdleRegistry /\ IdleCoord /\ IdleMem /\ InitTools /\ IdleAudit /\ IdleTmpdir
SpecTools == ToolInit /\ [][NextTools]_vars

AuditInit == IdleAsync /\ IdleMulti /\ IdleRetry /\ IdleBackoff /\ IdleLimit /\ IdleRegistry /\ IdleCoord /\ IdleMem /\ IdleTool /\ InitAudit /\ IdleTmpdir
SpecAudit == AuditInit /\ [][NextAudit]_vars

TmpdirInit == IdleAsync /\ IdleMulti /\ IdleRetry /\ IdleBackoff /\ IdleLimit /\ IdleRegistry /\ IdleCoord /\ IdleMem /\ IdleTool /\ IdleAudit /\ InitTmpdir
SpecTmpdir == TmpdirInit /\ [][NextTmpdir]_vars

\* ---------------------------------------------------------------------------
\* Properties
\* ---------------------------------------------------------------------------
Range(f) == {f[i] : i \in DOMAIN f}

\* C1: AsyncSink.Emit never blocks: in every state each step of a call in
\* progress can be taken at once, whatever the consumer, the downstream sink
\* and Close are doing, and the call ends by returning.
EmitNeverBlocks ==
    \A e \in Emitters :
        /\ epc[e] = "select" => ENABLED EmitSelect(e)
        /\ eres[e] # "panic"

\* The part of C1 that holds: while the process lives no step of Emit waits.
EmitStepsNeverWait ==
    ~panicked =>
        \A e \in Emitters :
            epc[e] = "select" => ENABLED EmitSelect(e)

\* C2: an Emit whose send finds the queue holding capacity events leaves the
\* queue as it was, hands nothing to the consumer and returns nil.  (The
\* Emit of the specification takes no context: the claim is read for callers
\* whose context is live.)
FullQueueDropsReturnsNil ==
    [][\A e \in Emitters :
          (EmitSelect(e) /\ ~ectx[e] /\ Len(queue) = capacity) =>
              /\ queue' = queue
              /\ enqueued' = enqueued
              /\ received' = received
              /\ eres'[e] = "nil"]_vars

\* C3: an Emit (of a caller whose context is live) that ends having enqueued
\* its event, or having found the queue full or the sink closing, returns
\* nil, and no Emit returns the error of the downstream sink.
EmitNilUnlessFatal ==
    [][\A e \in Emitters :
          ((EmitCall(e) \/ EmitSelect(e)) /\ epc'[e] = "idle") =>
              /\ (/\ ~ectx[e]
                  /\ \/ enqueued' # enqueued
                     \/ Len(queue) = capacity
                     \/ doneCloses > 0)
                    => eres'[e] = "nil"
              /\ eres'[e] # "dsErr"]_vars

\* C4: when a Close call has returned, every enqueued event has been passed
\* to the downstream sink, the queue is empty and the consumer has exited.
CloseDrains ==
    CloseReturned =>
        /\ received = enqueued
        /\ queue = <<>>
        /\ loopPc = "exited"

CloseDrainsWitness ==
    /\ CloseReturned
    /\ Len(enqueued) >= 2
    /\ ~panicked

\* C5: the downstream sink is passed the enqueued events in enqueue order,
\* each once: what it received, followed by what is still buffered, is the
\* sequence of events enqueued.
FifoExactlyOnce == enqueued = received \o queue

\* Two emitters raced (event 2 was enqueued before event 1) and both events
\* have been delivered.
FifoWitness ==
    /\ Len(received) >= 2
    /\ received[1].id = 2
    /\ received[2].id = 1

\* C6: the queue has the capacity asked for, 256 when the argument is not
\* positive, and never buffers more events than that.
BufferBounded ==
    /\ capacity = (IF buffer > 0 THEN buffer ELSE 256)
    /\ Len(queue) <= capacity

BufferFullWitness ==
    /\ buffer > 0
    /\ Len(queue) = capacity

\* C7: MultiSink.Emit passes the event to the non-nil sinks in argument
\* order, once each, up to and including the first that fails, and returns
\* that sink's error; when none fails all of them get it and nil is returned.
MultiStopsAtFirstError ==
    /\ \A i, j \in 1..Len(msinks) : i < j => msinks[i] < msinks[j]
    /\ Range(msinks) = {p \in DOMAIN margs : margs[p]}
    /\ (mpc = "idle" /\ mres = 0) => mseen = msinks
    /\ (mpc = "idle" /\ mres > 0) =>
          \E k \in 1..Len(msinks) :
              /\ msinks[k] = mres
              /\ mseen = SubSeq(msinks, 1, k)

\* The second of three sinks failed.
MultiErrorWitness ==
    /\ mpc = "idle"
    /\ Len(msinks) = 3
    /\ mres = msinks[2]

\* C8: an Emit that begins after a Close has returned returns nil at the
\* first select, and its event is never enqueued nor passed downstream.
LateEmitDropped ==
    \A e \in Emitters :
        elate[e] =>
            /\ epc[e] # "select"
            /\ eres[e] \in {"none", "nil"}
            /\ epc[e] = "idle" => eres[e] = "nil"
            /\ eev[e] \notin Range(enqueued)
            /\ eev[e] \notin Range(received)

LateEmitWitness ==
    \E e \in Emitters :
        /\ elate[e]
        /\ epc[e] = "idle"
        /\ eres[e] = "nil"

\* C9: however many Close calls are made, done and queue are each closed at
\* most once, exactly once when a Close has returned, and no Close returns
\* before the consumer has exited.
CloseOneShot ==
    /\ doneCloses <= 1
    /\ queueCloses <= 1
    /\ \A c \in Closers :
          cpc[c] = "returned" =>
              /\ doneCloses = 1
              /\ queueCloses = 1
              /\ loopPc = "exited"
              /\ wg = 0

CloseAllReturnedWitness == \A c \in Closers : cpc[c] = "returned"

Max(a, b) == IF a >= b THEN a ELSE b

NormalizePreservesPositive ==
    rpc = "out" =>
        /\ rin.MaxAttempts > 0 => rout.MaxAttempts = rin.MaxAttempts
        /\ rin.BaseBackoff > 0 => rout.BaseBackoff = rin.BaseBackoff
        /\ rin.MaxBackoff > 0 => rout.MaxBackoff = rin.MaxBackoff
        /\ rin.RateLimitMaxAttempts > 0 =>
              rout.RateLimitMaxAttempts = rin.RateLimitMaxAttempts
        /\ rin.RateLimitBaseBackoff > 0 =>
              rout.RateLimitBaseBackoff = rin.RateLimitBaseBackoff
        /\ rin.RateLimitMaxBackoff > 0 =>
              rout.RateLimitMaxBackoff = rin.RateLimitMaxBackoff

\* C11 amended: every strictly positive field of the input is returned as it
\* was, except that a positive MaxBackoff (RateLimitMaxBackoff) below the
\* normalized BaseBackoff (RateLimitBaseBackoff) is raised to that value.
NormalizePreservesUnlessBelowBase ==
    rpc = "out" =>
        /\ rin.MaxAttempts > 0 => rout.MaxAttempts = rin.MaxAttempts
        /\ rin.BaseBackoff > 0 => rout.BaseBackoff = rin.BaseBackoff
        /\ rin.MaxBackoff > 0 =>
              rout.MaxBackoff = Max(rin.MaxBackoff, rout.BaseBackoff)
        /\ rin.RateLimitMaxAttempts > 0 =>
              rout.RateLimitMaxAttempts = rin.RateLimitMaxAttempts
        /\ rin.RateLimitBaseBackoff > 0 =>
              rout.RateLimitBaseBackoff = rin.RateLimitBaseBackoff
        /\ rin.RateLimitMaxBackoff > 0 =>
              rout.RateLimitMaxBackoff =
                  Max(rin.RateLimitMaxBackoff, rout.RateLimitBaseBackoff)

\* A policy whose six fields are all positive, with MaxBackoff below
\* BaseBackoff, was normalized: only MaxBackoff changed.
NormalizePreservesWitness ==
    /\ rpc = "out"
    /\ rin.MaxAttempts = 5
    /\ rin.BaseBackoff = 200
    /\ rin.MaxBackoff = 100
    /\ rin.RateLimitMaxAttempts = 5
    /\ rin.RateLimitBaseBackoff = 10000
    /\ rin.RateLimitMaxBackoff = 150000
    /\ rout = [rin EXCEPT !.MaxBackoff = 200]

\* Digits of the natural number x * k^e.
RECURSIVE NatTimesPow(_, _, _)
NatTimesPow(x, k, e) ==
    IF e = 0 THEN x ELSE NatTimesPow(MulDigits(x, k, 0), k, e - 1)

\* min(MaxBackoff, BaseBackoff * 2^(n-1)), computed without overflow.
CappedDoubling(p, n) ==
    LET prod == NatTimesPow(p.BaseBackoff, 2, n - 1)
    IN  IF NatLeq(p.MaxBackoff, prod) THEN p.MaxBackoff ELSE Wrap64(prod)

\* C12: for a normalized policy every result of backoffForAttempt(n) is
\* min(MaxBackoff, BaseBackoff * 2^(n-1)), with n < 1 treated as 1, so it is
\* at least BaseBackoff, at most MaxBackoff and never smaller than the result
\* for the retry number before.
BackoffIsCappedDoubling ==
    \A k \in 1..Len(gdelays) :
        LET n == IF RetryNumberOf(k) < 1 THEN 1 ELSE RetryNumberOf(k)
        IN  /\ gdelays[k] = CappedDoubling(bpol, n)
            /\ Leq64(bpol.BaseBackoff, gdelays[k])
            /\ Leq64(gdelays[k], bpol.MaxBackoff)
            /\ k > 1 => Leq64(gdelays[k - 1], gdelays[k])

\* The part of C12 that holds: the same, for policies whose MaxBackoff is
\* below 2^62 nanoseconds, where doubling a delay up to it cannot overflow.
BackoffIsCappedDoublingBelowPow62 ==
    Less64(bpol.MaxBackoff, Pow62) => BackoffIsCappedDoubling

\* 0.8 * d <= r <= 1.2 * d for d = min(max, base * 1.5^e), as comparisons of
\* natural numbers: 4*d <= 5*r and 5*r <= 6*d, each multiplied by 2^e.
WithinJitterBand(r, base, max, e) ==
    LET r5 == MulDigits(r, 5, 0)
    IN  /\ ~IsNeg64(r)
        /\ \/ NatLeq(MulDigits(max, 4, 0), r5)
           \/ NatLeq(NatTimesPow(MulDigits(base, 4, 0), 3, e),
                     NatTimesPow(r5, 2, e))
        /\ NatLeq(r5, MulDigits(max, 6, 0))
        /\ NatLeq(NatTimesPow(r5, 2, e), NatTimesPow(MulDigits(base, 6, 0), 3, e))

\* C13: for a normalized policy every result r of rateLimitBackoffForAttempt(n)
\* lies within 20% of d = min(RateLimitMaxBackoff, RateLimitBaseBackoff *
\* 1.5^(max(n,1)-1)); so with a base of 30s the first retry waits between 24s
\* and 36s, and no retry waits more than 1.2 * RateLimitMaxBackoff.
RateLimitBackoffWithinBand ==
    \A k \in 1..Len(rdelays) :
        LET n == IF RetryNumberOf(k) < 1 THEN 1 ELSE RetryNumberOf(k)
        IN  /\ WithinJitterBand(rdelays[k], bpol.RateLimitBaseBackoff,
                                bpol.RateLimitMaxBackoff, n - 1)
            /\ (bpol.RateLimitBaseBackoff = Second(30) /\ n = 1) =>
                  /\ Leq64(Second(24), rdelays[k])
                  /\ Leq64(rdelays[k], Second(36))

\* The part of C13 that holds: the same, for policies whose rate-limit base
\* is a millisecond or more and whose rate-limit maximum is below 2^62
\* nanoseconds.
RateLimitBackoffWithinBandOrdinary ==
    (/\ Leq64(Millisecond(1), bpol.RateLimitBaseBackoff)
     /\ Less64(bpol.RateLimitMaxBackoff, Pow62))
        => RateLimitBackoffWithinBand

\* Whatever rand.Float64() returns, the jitter that is added is zero.
JitterIsZero == \A r \in Float64Draws : JitterFactor(r) = 0

\* ---------------------------------------------------------------------------
\* IsRateLimitError
\* ---------------------------------------------------------------------------
\* Two characters that are the same letter, whatever their case.
SameLetter(a, b) ==
    \/ a = b
    \/ \E k \in 1..Len(UpperLetters) : {a, b} = {UpperLetters[k], LowerLetters[k]}

\* pat occurs in s at offset i when case is ignored.
OccursIgnoringCaseAt(s, pat, i) ==
    \A j \in 1..Len(pat) : SameLetter(s[i + j], pat[j])

RateLimitPatterns ==
    {PatRateLimitUnderscore, PatRateLimitSpace, Pat429, PatTooManyRequests}

MentionsRateLimit(err) ==
    /\ ~err.nil
    /\ \E pat \in RateLimitPatterns :
          \E i \in 0..(Len(err.msg) - Len(pat)) :
              OccursIgnoringCaseAt(err.msg, pat, i)

\* C14: IsRateLimitError(err) is true exactly when err is non-nil and its
\* message contains, case ignored, "rate_limit", "rate limit", "429" or
\* "too many requests".
IsRateLimitErrorMatchesPatterns ==
    lpc = "out" => (lres <=> MentionsRateLimit(lerr))

\* An error whose message has a pattern only in another case was classified
\* as a rate-limit error.
IsRateLimitErrorWitness ==
    /\ lpc = "out"
    /\ lres
    /\ ~lerr.nil
    /\ \A pat \in RateLimitPatterns : ~Contains(lerr.msg, pat)

\* ---------------------------------------------------------------------------
\* The registries
\* ---------------------------------------------------------------------------
\* A strict registration of s that returned err and took the map from
\* before to after.
StrictStep(before, after, s, err) ==
    IF s.nil \/ s.Name = "" \/ s.Name \in DOMAIN before
        THEN err # "nil" /\ after = before
        ELSE /\ err = "nil"
             /\ DOMAIN after = DOMAIN before \cup {s.Name}
             /\ after[s.Name] = s
             /\ \A n \in DOMAIN before : after[n] = before[n]

\* C15: Register of the skill and of the flow registry fails on nil, on an
\* empty name and on a registered name, and then leaves the registry as it
\* was; any other call binds the name and returns nil.
RegisterIsStrict ==
    [][/\ call'.op = "Register" =>
              StrictStep(skills, skills', call'.arg, call'.res)
       /\ call'.op = "flow.Register" =>
              StrictStep(flows, flows', call'.arg, call'.res)]_vars

\* A Register was refused because another skill holds the name, and that
\* skill is still the one bound to it.
RegisterDuplicateWitness ==
    /\ call.op = "Register"
    /\ call.res = "already registered"
    /\ call.arg.Name \in DOMAIN skills
    /\ skills[call.arg.Name] # call.arg

\* C16: Upsert of a valid definition returns nil, binds its name to it and
\* changes no other entry, whether or not the name was bound; a second
\* Upsert of the same definition changes nothing.
UpsertIsIdempotent ==
    [][(call'.op = "flow.Upsert" /\ ~call'.arg.nil /\ call'.arg.Name # "") =>
          LET f == call'.arg
          IN  /\ call'.res = "nil"
              /\ DOMAIN flows' = DOMAIN flows \cup {f.Name}
              /\ flows'[f.Name] = f
              /\ \A n \in DOMAIN flows \ {f.Name} : flows'[n] = flows[n]
              /\ Upsert(flows', f).reg = flows'
              /\ Upsert(flows', f).err = "nil"]_vars

\* An Upsert of the second object of a name returned nil, bound the name
\* to it and left the other name bound.
UpsertWitness ==
    /\ call.op = "flow.Upsert"
    /\ call.res = "nil"
    /\ call.arg.id = MaxObjects
    /\ flows[call.arg.Name] = call.arg
    /\ Cardinality(DOMAIN flows) = 2

\* A removal of name that returned ok and took the map from before to after.
RemovalStep(before, after, name, ok) ==
    /\ ok <=> name \in DOMAIN before
    /\ DOMAIN after = DOMAIN before \ {name}
    /\ \A n \in DOMAIN after : after[n] = before[n]

\* C17: Remove and Delete return true exactly when the name was registered;
\* afterwards Get does not find the name, a second removal returns false,
\* and the other entries are unchanged.
RemoveReportsPresence ==
    [][/\ call'.op = "Remove" =>
              /\ RemovalStep(skills, skills', call'.arg, call'.res)
              /\ ~Get(skills', call'.arg).ok
              /\ ~Remove(skills', call'.arg).ok
              /\ Remove(skills', call'.arg).reg = skills'
       /\ call'.op = "flow.Delete" =>
              /\ RemovalStep(flows, flows', call'.arg, call'.res)
              /\ ~FlowGet(flows', call'.arg).ok
              /\ ~Delete(flows', call'.arg).ok
              /\ Delete(flows', call'.arg).reg = flows']_vars

\* A Remove returned true and another skill is still registered.
RemoveWitness ==
    /\ call.op = "Remove"
    /\ call.res = TRUE
    /\ call.arg \notin DOMAIN skills
    /\ DOMAIN skills # {}

\* names holds each key of reg once, in ascending order.
IsSortedKeys(names, reg) ==
    /\ Len(names) = Cardinality(DOMAIN reg)
    /\ {names[i] : i \in 1..Len(names)} = DOMAIN reg
    /\ \A i \in 1..(Len(names) - 1) : StringLess(names[i], names[i + 1])

\* C18: Names returns the registered names, each once, ascending; All, when
\* no call changed the set of names while it ran, returns the skills in
\* that order; Count is the length of both.
NamesAllCountAgree ==
    /\ call.op = "Names" => IsSortedKeys(call.res, skills)
    /\ (call.op = "All" /\ {call.arg[i] : i \in 1..Len(call.arg)} = DOMAIN skills) =>
          /\ IsSortedKeys(call.arg, skills)
          /\ Len(call.res) = Len(call.arg)
          /\ \A i \in 1..Len(call.res) : call.res[i] = skills[call.arg[i]]
    /\ call.op = "Count" =>
          /\ call.res = Cardinality(DOMAIN skills)
          /\ call.res = Len(Names(skills))
          /\ call.res = Len(AllOf(skills, Names(skills)))

\* All returned five skills: the built-in ones and one of the caller.
AllWitness ==
    /\ call.op = "All"
    /\ Len(call.res) = 5
    /\ {call.arg[i] : i \in 1..Len(call.arg)} = DOMAIN skills
    /\ \E i \in 1..Len(call.res) : call.res[i].id # 0

\* A loader step keeps every bound name bound to the same skill.
LoadKeepsBindings ==
    \A n \in DOMAIN skills : n \in DOMAIN skills' /\ skills'[n] = skills[n]

\* C19: the skill registered first stays bound to its name and no loader
\* gets an error for a name that is already registered, also when several
\* loaders load the same name at the same time.
FirstLoadedWinsSilently ==
    [][/\ LoadKeepsBindings
       /\ \A l \in 1..NumLoaders : ldres'[l] # "already registered"]_vars

\* The part of C19 that holds: a loader never rebinds a name.
FirstLoadedStaysBound == [][LoadKeepsBindings]_vars

BuiltinNames == {builtinSkills[i].Name : i \in 1..Len(builtinSkills)}

\* C20: RegisterBuiltins replaces no registered skill, leaves every other
\* name as it was, registers the built-in skill under each of the four
\* names that were free, and a second call changes nothing.
RegisterBuiltinsSkipsExisting ==
    [][call'.op = "RegisterBuiltins" =>
          /\ \A n \in DOMAIN skills : n \in DOMAIN skills' /\ skills'[n] = skills[n]
          /\ DOMAIN skills' =
                 DOMAIN skills \cup
                 {"k8s-debug", "incident-response", "code-audit", "secure-defaults"}
          /\ \A i \in 1..Len(builtinSkills) :
                 builtinSkills[i].Name \notin DOMAIN skills =>
                     skills'[builtinSkills[i].Name] = builtinSkills[i]
          /\ RegisterBuiltinsFrom(skills', 1) = skills']_vars

\* RegisterBuiltins returned with the four names registered and with
\* k8s-debug still bound to the skill a caller registered before.
RegisterBuiltinsWitness ==
    /\ call.op = "RegisterBuiltins"
    /\ BuiltinNames \subseteq DOMAIN skills
    /\ skills["k8s-debug"].id # 0
    /\ skills["code-audit"].id = 0

\* C21: the count LoadFromDir returns is the number of skills the call
\* added to the registry.
LoadFromDirCountsAdded ==
    [][call'.op = "LoadFromDir" =>
          call'.res = Count(skills') - Count(skills)]_vars

\* The names the files of a directory declare.
DeclaredNames(entries) ==
    {entries[i].s.Name : i \in {j \in 1..Len(entries) : ~entries[j].err}}

\* What holds of the count: it is the number of files that parse, which is
\* the number of skills added when the files declare different names and
\* none of them is registered.
LoadFromDirCountsParsed ==
    [][call'.op = "LoadFromDir" =>
          LET entries == call'.arg
              parsed == {j \in 1..Len(entries) : ~entries[j].err}
          IN  /\ call'.res = Cardinality(parsed)
              /\ (/\ DeclaredNames(entries) \cap DOMAIN skills = {}
                  /\ Cardinality(DeclaredNames(entries)) = Cardinality(parsed))
                     => call'.res = Count(skills') - Count(skills)]_vars

\* C22: at most one attempt of the run is in flight, whatever the
\* interleaving of the workers that claim, open, close or mark lost.
AtMostOneInFlight ==
    Cardinality(InFlight(attempts)) <= 1

\* A second worker holds the redelivered task while the attempt of the first
\* worker, which still runs, is in flight.
TwoClaimantsWitness ==
    /\ Len(attempts) >= 2
    /\ attempts[1].status = "lost"
    /\ InFlight(attempts) = {2}
    /\ \E w, v \in 1..NumWorkers :
          wpc[w] = "claimed" /\ wpc[v] = "running" /\ watt[v] = 2

\* C23: terminal run statuses are absorbing.  Once the run is succeeded,
\* failed, cancelled or dead-letter, a step changes the run only if it is an
\* intervention recorded in the audit log, and the UpdateRun of a worker
\* (step 4, or step 7 after it closed its attempt) fails with
\* AlreadyTerminal and leaves every field of the run as it was.
TerminalIsAbsorbing ==
    [][run.status \in TerminalStatuses =>
          /\ run' # run => ilog' = ilog + 1
          /\ \A w \in 1..NumWorkers :
                \/ TransitionRun(w)
                \/ Finalize(w) /\ watt[w] \in InFlight(attempts)
                => run' = run /\ werr' = "AlreadyTerminal"]_vars

\* A worker finished its step after the run was cancelled: its attempt is
\* closed as succeeded, its UpdateRun failed with AlreadyTerminal and the run
\* is still cancelled.
AlreadyTerminalWitness ==
    /\ run.status = "cancelled"
    /\ werr = "AlreadyTerminal"
    /\ \E n \in 1..Len(attempts) : attempts[n].status = "succeeded"

\* The worker of attempt n still works on it and still holds the task.
HeldBy(n, w) ==
    watt[w] = n /\ task.state = "pending" /\ task.holder = w

\* Attempt n is in flight and the visibility of its task expired or its
\* worker crashed.
Orphaned(n) ==
    n \in InFlight(attempts) /\ \A w \in 1..NumWorkers : ~HeldBy(n, w)

\* Attempt n is in flight and no worker works on it.
Abandoned(n) ==
    n \in InFlight(attempts) /\ \A w \in 1..NumWorkers : watt[w] # n

\* The worker that claims the redelivered task opens a new attempt row and
\* leaves the rows of the earlier attempts as they are.
FreshAttempt ==
    Len(attempts') > Len(attempts) =>
        /\ InFlight(attempts) = {}
        /\ attempts' = Append(attempts, [status |-> "in-flight", aged |-> FALSE])

\* C24: when the visibility of the task expires or its worker crashes while
\* the attempt of the run is in flight, the task goes to one new claimant,
\* the orphaned attempt is closed as lost and as nothing else, before the
\* next attempt is opened, and the next attempt is a fresh one.
OrphanClosedAsLost ==
    [][/\ \A n \in 1..Len(attempts) :
             Orphaned(n) => attempts'[n].status \in {"in-flight", "lost"}
       /\ \A w \in 1..NumWorkers :
             Claim(w) => /\ task'.deliveries = task.deliveries + 1
                         /\ \A v \in 1..NumWorkers \ {w} : wpc'[v] = wpc[v]
       /\ FreshAttempt]_vars

\* What holds: an attempt whose worker crashed is closed as lost and as
\* nothing else, before the next attempt is opened, and the next attempt is
\* a fresh one.  An attempt whose worker is still running when the
\* visibility expires can still be closed by that worker.
AbandonedClosedAsLost ==
    [][/\ \A n \in 1..Len(attempts) :
             Abandoned(n) => attempts'[n].status \in {"in-flight", "lost"}
       /\ \A w \in 1..NumWorkers :
             Claim(w) => /\ task'.deliveries = task.deliveries + 1
                         /\ \A v \in 1..NumWorkers \ {w} : wpc'[v] = wpc[v]
       /\ FreshAttempt]_vars

\* C25: an Emit (of a caller whose context is live) that overlaps Close
\* never sends on the closed queue: its second select either enqueues the
\* event while the queue is still open, or drops it and returns nil, and the
\* process does not panic.
EmitNeverSendsOnClosedQueue ==
    [][\A e \in Emitters :
          (EmitSelect(e) /\ ~ectx[e] /\ doneCloses > 0) =>
              /\ ~panicked'
              /\ \/ /\ queueCloses = 0
                    /\ enqueued' # enqueued
                    /\ eres'[e] = "nil"
                 \/ /\ queue' = queue
                    /\ enqueued' = enqueued
                    /\ eres'[e] = "nil"]_vars

\* C26: every element of the slice All returns is a skill, not nil, also
\* when Remove or Reset ran between the two steps of All.
AllReturnsOnlySkills ==
    call.op = "All" =>
        \A i \in 1..Len(call.res) : call.res[i] # Nil

\* C27: read-your-write.  A Get of key k that directly follows Set(k, v,
\* agent), before the clock has moved, returns (v, true), whatever was stored
\* under k before.
SetThenGet ==
    [][(/\ mcall.op = "Set"
        /\ mcall'.op = "Get"
        /\ mcall'.arg[1] = mcall.arg[1])
          => mcall'.res = [value |-> mcall.arg[2], ok |-> TRUE]]_vars

\* What holds: the Get returns (v, true) unless k held an entry with a TTL
\* that has elapsed, which Set updates without renewing it.
SetThenGetUnlessExpired ==
    [][(/\ mcall.op = "Set"
        /\ mcall'.op = "Get"
        /\ mcall'.arg[1] = mcall.arg[1])
          => LET entry == memEntries[mcall.arg[1]]
             IN  mcall'.res =
                     IF entry.TTL > 0 /\ clock - entry.CreatedAt > entry.TTL
                         THEN NotFound
                         ELSE [value |-> mcall.arg[2], ok |-> TRUE]]_vars

\* The keys whose entry has a TTL > 0 and an age, the clock minus CreatedAt,
\* that exceeds it.
ExpiredKeys ==
    {k \in DOMAIN memEntries :
        /\ memEntries[k].TTL > 0
        /\ clock - memEntries[k].CreatedAt > memEntries[k].TTL}

\* The keys whose entry has TTL = 0.
EternalKeys == {k \in DOMAIN memEntries : memEntries[k].TTL = 0}

\* The keys a reader returned.
ReturnedKeys ==
    IF mcall.op \in {"Get", "GetEntry"}
        THEN IF mcall.res.ok THEN {mcall.arg[1]} ELSE {}
    ELSE IF mcall.op = "Keys" THEN mcall.res
    ELSE IF mcall.op \in {"All", "GetByCreator"} THEN DOMAIN mcall.res
    ELSE {}

\* The keys a reader was asked for.
AskedKeys ==
    IF mcall.op \in {"Get", "GetEntry"} THEN {mcall.arg[1]}
    ELSE IF mcall.op = "GetByCreator"
        THEN {k \in DOMAIN memEntries : memEntries[k].CreatedBy = mcall.arg[1]}
    ELSE DOMAIN memEntries

\* A reader returns no expired entry, and it returns every entry with
\* TTL = 0 it was asked for.
ReadersHideExpired ==
    mcall.op \in {"Get", "GetEntry", "Keys", "All", "GetByCreator"} =>
        /\ ReturnedKeys \cap ExpiredKeys = {}
        /\ ReturnedKeys \subseteq AskedKeys
        /\ AskedKeys \cap EternalKeys \subseteq ReturnedKeys

\* C29: Get, GetEntry, Keys, All and GetByCreator return no entry with
\* TTL > 0 whose age exceeds its TTL, entries with TTL = 0 never expire, and
\* CleanupExpired removes exactly the expired entries and returns their
\* number.
NeverExposesExpired ==
    [][/\ ReadersHideExpired'
       /\ mcall'.op = "CleanupExpired" =>
             /\ DOMAIN memEntries' = DOMAIN memEntries \ ExpiredKeys
             /\ \A k \in DOMAIN memEntries' : memEntries'[k] = memEntries[k]
             /\ mcall'.res = Cardinality(ExpiredKeys)]_vars

\* Keys returned the key of an entry without TTL and left out an entry
\* whose TTL has elapsed.
HiddenEntryWitness ==
    /\ mcall.op = "Keys"
    /\ ExpiredKeys # {}
    /\ mcall.res = EternalKeys
    /\ EternalKeys # {}

\* CleanupExpired removed one expired entry and kept an entry whose age is
\* its TTL.
CleanupWitness ==
    /\ mcall.op = "CleanupExpired"
    /\ mcall.res = 1
    /\ \E k \in DOMAIN memEntries :
          /\ memEntries[k].TTL > 0
          /\ clock - memEntries[k].CreatedAt = memEntries[k].TTL

\* No call of UpsertCustomHTTPTool or DeleteCustomHTTPTool is under way.
ToolsQuiescent == \A c \in ToolCallers : tpc[c] = "idle"

\* C28: when no Upsert or Delete is under way, every tool that
\* ListCustomHTTPTools returns is registered, and no tool installed as a
\* custom HTTP tool is registered without its spec.
ListedToolsAreRegistered ==
    ToolsQuiescent =>
        LET list == ListCustomHTTPTools(customToolSpecs)
        IN  /\ \A i \in 1..Len(list) : ToolExists(toolRegistry, list[i].Name)
            /\ \A name \in DOMAIN toolRegistry :
                  toolRegistry[name] = "custom" => name \in DOMAIN customToolSpecs

\* What holds: a custom tool is never registered without its spec once the
\* calls have returned; a spec can be left without its tool.
NoCustomToolWithoutSpec ==
    ToolsQuiescent =>
        \A name \in DOMAIN toolRegistry :
            toolRegistry[name] = "custom" => name \in DOMAIN customToolSpecs

\* The call added one row that carries the entry and a creation time, and
\* left the rows that were there as they were.
AddedOneRow ==
    /\ Len(auditRows') = Len(auditRows) + 1
    /\ \A i \in 1..Len(auditRows) : auditRows'[i] = auditRows[i]
    /\ LET row == auditRows'[Len(auditRows')]
           entry == acall'.entry
       IN  /\ row.actor_key_id = entry.ActorKeyID
           /\ row.action = entry.Action
           /\ row.resource = entry.Resource
           /\ row.payload = entry.Payload
           /\ \E t \in {1, 2} : row.created_at = FormatRFC3339Nano(t)
           /\ \A i \in 1..Len(auditRows) : auditRows[i].id # row.id

\* C30: each call to Record adds exactly one row carrying the entry's
\* actor key id, action, resource and payload with a creation time, for every
\* entry value, and changes or removes no existing row.
RecordAddsOneRow ==
    [][RecordCall => AddedOneRow]_vars

\* C30 as it holds: a Record on an open store that returns nil for an entry
\* with an action and a resource added exactly one such row; every other
\* call (an entry without action or resource, which returns nil, a nil
\* store, a failed INSERT) added none; no call changes or removes a row.
RecordAddsOneRowIfComplete ==
    [][RecordCall =>
          IF /\ acall'.store = "db"
             /\ acall'.entry.Action # "" /\ acall'.entry.Resource # ""
             /\ acall'.res = "nil"
              THEN AddedOneRow
              ELSE /\ auditRows' = auditRows
                   /\ (acall'.entry.Action = "" \/ acall'.entry.Resource = "")
                         => acall'.res = "nil"]_vars

\* Two calls were recorded, the second one without an actor key id.
RecordedWitness ==
    /\ Len(auditRows) = 2
    /\ auditRows[2].id = 2
    /\ auditRows[2].actor_key_id = ""
    /\ acall.res = "nil"
    /\ acall.entry.Action = auditRows[2].action
    /\ acall.entry.ActorKeyID = ""

\* The six range conditions every normalized policy meets.
NormalizedPolicy(p) ==
    /\ p.MaxAttempts >= 1
    /\ 0 < p.BaseBackoff
    /\ p.BaseBackoff <= p.MaxBackoff
    /\ p.RateLimitMaxAttempts >= 1
    /\ 0 < p.RateLimitBaseBackoff
    /\ p.RateLimitBaseBackoff <= p.RateLimitMaxBackoff

\* C31: every policy returned by normalizeRetryPolicy has MaxAttempts >= 1,
\* 0 < BaseBackoff <= MaxBackoff, RateLimitMaxAttempts >= 1 and
\* 0 < RateLimitBaseBackoff <= RateLimitMaxBackoff, and normalizing the
\* returned policy again returns it unchanged.
NormalizeIsValidAndIdempotent ==
    rpc = "out" =>
        /\ NormalizedPolicy(rout)
        /\ normalizeRetryPolicy(rout) = rout

\* A policy that met none of the range conditions (no attempts, an unset
\* BaseBackoff with a small MaxBackoff, a rate-limit maximum below its base)
\* was normalized and came back changed in five fields.
NormalizeIsValidWitness ==
    /\ rpc = "out"
    /\ ~NormalizedPolicy(rin)
    /\ rin.MaxAttempts = 0
    /\ rin.BaseBackoff = 0
    /\ rin.MaxBackoff = 100
    /\ rin.RateLimitMaxAttempts = -1
    /\ rin.RateLimitBaseBackoff = 150000
    /\ rin.RateLimitMaxBackoff = 10000
    /\ rout.MaxBackoff = 200
    /\ rout.RateLimitMaxBackoff = 150000

\* A path lies within a directory when the directory is the path itself or
\* one of the directories above it.
Within(d, p) == d \in Ancestors(p)

\* C32: whenever write_file or read_file hands a path to the file system,
\* that path lies within the managed temporary directory passed as path,
\* whatever the fileName.
TmpdirFilesStayInside ==
    (tcall.op \in {"write_file", "read_file"} /\ tcall.target # NoTarget)
        => Within(tcall.dirPath, tcall.target)

\* A write_file call created a file in a sub-directory of its managed
\* directory.
SubdirectoryWriteWitness ==
    /\ tcall.op = "write_file"
    /\ tcall.ok
    /\ Dir(tcall.target) # tcall.dirPath
    /\ Within(tcall.dirPath, tcall.target)

====
